---- MODULE Spec2Model ----
(***************************************************************************)
(* Verification model of the PC controller of android-auto-test.           *)
(*                                                                         *)
(* SpecClient  : one DeviceClient (device/client.py): its two sockets, the *)
(*               reader tasks, the pending-request table, the futures of   *)
(*               the send calls, connect() and disconnect().               *)
(* SpecManager : the DeviceManager (device/manager.py): the client pool,   *)
(*               the port map, the port counter and the ADB forwards.      *)
(* SpecRace    : connect called by tasks that run concurrently.            *)
(* SpecPlanner : TestPlanner.plan (scheduler/planner.py).                  *)
(* SpecRunner  : TestRunner.run (automation/runner.py).                    *)
(* SpecExecutor: ParallelExecutor.execute (scheduler/executor.py) on top   *)
(*               of the manager's connect_all.                             *)
(* SpecExecutorLive: SpecExecutor under the scheduling of the event loop.  *)
(* SpecBus     : the EventBus (core/events.py).                            *)
(* SpecBusConc : emit calls made by tasks that run concurrently.           *)
(* SpecListener: the dispatch loop of _listen_events (device/client.py).   *)
(* SpecCli     : the run command (cli/app.py).                             *)
(* SpecCodec   : Message.to_json and from_json (device/protocol.py).       *)
(* SpecOcr     : Device.ocr_click (automation/dsl.py).                     *)
(***************************************************************************)
EXTENDS Integers, Sequences, FiniteSets, TLC

\* ------------------------------------------------------------------ bounds
\* send calls issued on the client (call i carries message id i)
MaxReq == 2
\* connect() calls that reach websockets.connect (socket pair n is opened by the n-th)
MaxSockets == 2
\* frames the agent pushes on the event channel
MaxEvents == 1
\* handlers registered through on_event
MaxHandlers == 1

\* port blocks the manager allocates
MaxBlocks == 3
\* tasks that call the manager
MaxCallers == 2
\* tests handed to one TestPlanner.plan call
MaxTests == 3
\* tests handed to one TestRunner.run call
MaxRunTests == 2
\* largest TestCaseInfo.retry
MaxRetry == 2
\* tests handed to one ParallelExecutor.execute call
MaxExecTests == 2
\* largest max_workers of a ParallelExecutor
MaxWorkers == 2
\* emit calls made on the EventBus
MaxEmits == 2
\* subscriptions the EventBus holds at one time, all its lists together
MaxSubs == 2
\* frames read from the event socket
MaxFrames == 2
\* longest list of on_event handlers
MaxListeners == 3
\* tests the run command finds
MaxCliTests == 2
\* devices the run command connects to
MaxCliDevices == 2
\* longest list of matches find_text returns
MaxMatches == 2
\* poll intervals the clock of ocr_click runs for
MaxOcrTime == 3

ReqIds == 1..MaxReq
SockIds == 1..MaxSockets
NoSock == 0

VARIABLES
  \* ---- emit calls made by concurrently running tasks (core/events.py:40-54)
  q_ready,               \* the event loop's queue of _safe_call tasks that have not started
  q_running,             \* per emit call: its _safe_call tasks whose handler awaits
  q_log,                 \* the handler invocations so far, in order: the emit call and the handler
  q_await,               \* per emitting task: the emit call it awaits, 0 when it awaits none
  q_nemit,               \* emit calls made so far; the n-th call made is emit call n
  \* ---- a Device.ocr_click call (dsl.py:113-175)
  o_pc,                  \* position of the call: "idle", "screenshot", "find_text", "click", "sleep", "returned", "raised"
  o_index,               \* index
  o_time,                \* the loop's clock, in poll intervals
  o_deadline,            \* deadline
  o_wake,                \* when the sleep under way ends
  o_matches,             \* matches of the latest find_text
  o_sent,                \* the requests the call has sent on the client, in order
  o_result,              \* the OcrClickResult returned, or the exception raised
  \* ---- the codec of Message (protocol.py:11-34) and the control reader that uses it
  k_pc,                  \* what has been done: "idle", "encoded", "decoded" (a round trip), "read" (a frame of the agent)
  k_msg,                 \* the Message that was encoded
  k_frame,               \* the frame: the text is JSON or not, and the object the JSON text denotes
  k_decoded,             \* what from_json gave: a Message, or the exception it raised
  k_pending,             \* _pending: the ids that have a slot
  k_resolved,            \* the ids whose future was resolved by the frame read
  k_reader,              \* the task of _listen_control: "running", or "failed" once an exception left it
  k_arrived,             \* the frames the agent has written to the control socket, in order
  \* ---- the run command of the CLI (cli/app.py:44-138)
  c_pc,                  \* position of the command: "idle", "connecting", "running", "done"
  c_tests,               \* len(tests) after discovery and filtering
  c_device,              \* the --device option was given
  c_parallel,            \* the --parallel option was given
  c_clients,             \* len(clients)
  c_all_results,         \* all_results: the status of each TestResult
  c_exit,                \* the exit code of the process, NoExit while it runs
  \* ---- the dispatch of _listen_events (client.py:106-109, 125-138)
  l_handlers,            \* _event_handlers: the list of handlers
  l_pc,                  \* position of the reader: "waiting" (for a frame), "dispatch" (in the for loop), "awaiting" (a handler), "ended"
  l_msg,                 \* frames read so far: the frame being dispatched is the l_msg-th
  l_iter,                \* the index of the iterator of "for handler in self._event_handlers"
  l_got,                 \* message -> the handlers invoked with it, in order
  l_stayed,              \* the handlers subscribed ever since the frame being dispatched was read
  \* ---- the EventBus (events.py:23-62) and its emit calls
  b_handlers,            \* _handlers: event type -> list of handlers
  b_wildcard,            \* _wildcard_handlers
  b_emit,                \* the emit call under way or the last that returned: its position,
                         \* its event type, its local "handlers", the state of each
                         \* _safe_call task, and whether the lists changed during it
  b_nemit,               \* emit calls made
  b_at_start,            \* the two lists as they were when the emit call started
  b_calls,               \* how many times the emit call invoked each handler
  b_overlap,             \* a handler was started while another had not finished
  \* ---- a ParallelExecutor.execute call (executor.py:41-146)
  e_pc,                  \* position of the call: "idle", "connect_all", "gather", "cancelling", "cancelled", "done"
  e_tests,               \* tests: the list of TestCaseInfo
  e_strategy,            \* strategy
  e_max_workers,         \* self.max_workers
  e_device_serials,      \* device_serials
  e_plan,                \* plan
  e_tasks,               \* tasks: the serials a worker was created for, in order
  e_results,             \* self._results
  e_return,              \* what the call returned
  e_events,              \* the types of the events execute emitted
  w_pc,                  \* the worker of a serial: "none", "waiting" (for the semaphore), "running", "returned", "cancelled"
  w_run,                 \* how runner.run ended in the worker: "none", "returned", "raised", "cancelled"
  w_results,             \* what the worker returned
  \* ---- DeviceClient fields (client.py:29-34)
  control_ws,            \* _control_ws: NoSock (None) or the current control socket
  event_ws,              \* _event_ws
  pending,               \* _pending: the set of ids that have a slot in the table
  event_handlers,        \* len(_event_handlers)
  event_listener_task,   \* _event_listener_task: NoSock or the socket pair whose event reader it is
  connected,             \* _connected
  \* ---- objects the client refers to
  ctlState,              \* control socket n: "unopened", "open", "closed"
  evtState,              \* event socket n
  ctlReader,             \* the _listen_control task of socket n: "none", "running", "ended"
  evtReader,             \* the _listen_events task of socket n: "none", "running", "cancelled"
  future,                \* the asyncio.Future of send call i
  futureResult,          \* the Message a future was resolved with
  \* ---- the calls in progress
  sendPc,                \* position of send call i
  sendOutcome,           \* how send call i ended
  sendReturned,          \* the Message send call i returned
  nextReq,               \* next unused send call
  cpc,                   \* position of the connect() call
  cStartedConnected,     \* is_connected when the connect() call in progress started
  nSockets,              \* socket pairs whose opening was attempted
  dpc,                   \* position of the disconnect() call
  \* ---- the agent and the channels
  wire,                  \* control socket n: frames written by the agent, not yet read
  agentInbox,            \* control socket n: request ids the agent has received
  agentWritten,          \* the ids of the agent's responses, in the order written
  sent,                  \* frames the client has written to a control socket
  nEvents,               \* event frames pushed so far
  notified,              \* event handler invocations so far
  \* ---- DeviceManager fields (manager.py:23-25)
  clients,               \* _clients: serial -> client, NoClient when the serial has no entry
  port_map,              \* _port_map: serial -> local port, NoPort when the serial has no entry
  next_local_port,       \* _next_local_port
  \* ---- what the manager acts on
  forwards,              \* the forwards installed in ADB: pairs <<serial, local port>>
  clientState,           \* the DeviceClient built for block k: "none", "failed", "connected",
                         \* "dropped" (the peer went away), "disconnected" (disconnect() ran),
                         \* "close_failed" (disconnect() raised)
  call,                  \* the manager call each caller is in: its frame
  \* ---- a TestPlanner.plan call (planner.py:32-38)
  p_tests,               \* tests: the list of TestCaseInfo
  p_device_serials,      \* device_serials
  p_strategy,            \* strategy
  p_plan,                \* the ExecutionPlan returned
  p_returned,            \* the call has returned
  \* ---- a TestRunner.run call (runner.py:68-162)
  r_tests,               \* tests: the list of TestCaseInfo
  r_serial,              \* client.serial
  r_pc,                  \* position of the run: "idle", "loop", "single", "handler",
                         \* "cancelling", "done"
  r_index,               \* i of "for i, test in enumerate(tests)"
  r_attempt,             \* invocations of the handler of the current test so far
  r_last,                \* last_result of _run_single
  r_results,             \* results
  r_completed,           \* the data of the run.completed event
  r_body,                \* how the handler body ended in the latest attempt
  r_failed,              \* every attempt of the current test before the latest ended
                         \* with status failed
  r_log,                 \* per finished test: its handler was invoked; its last attempt
                         \* ended with the ConnectionError of send
  r_events               \* the events the run has emitted on the bus, in order

clientVars == <<control_ws, event_ws, pending, event_handlers, event_listener_task,
                connected, ctlState, evtState, ctlReader, evtReader, future,
                futureResult, sendPc, sendOutcome, sendReturned, nextReq, cpc,
                cStartedConnected, nSockets, dpc, wire, agentInbox, agentWritten,
                sent, nEvents, notified>>

managerVars == <<clients, port_map, next_local_port, forwards, clientState, call>>

plannerVars == <<p_tests, p_device_serials, p_strategy, p_plan, p_returned>>

runnerVars == <<r_tests, r_serial, r_pc, r_index, r_attempt, r_last, r_results,
                r_completed, r_body, r_failed, r_log, r_events>>

executorVars == <<e_pc, e_tests, e_strategy, e_max_workers, e_device_serials, e_plan,
                  e_tasks, e_results, e_return, e_events, w_pc, w_run, w_results>>

busVars == <<b_handlers, b_wildcard, b_emit, b_nemit, b_at_start, b_calls, b_overlap>>

listenerVars == <<l_handlers, l_pc, l_msg, l_iter, l_got, l_stayed>>

cliVars == <<c_pc, c_tests, c_device, c_parallel, c_clients, c_all_results, c_exit>>

codecVars == <<k_pc, k_msg, k_frame, k_decoded, k_pending, k_resolved, k_reader,
               k_arrived>>

ocrVars == <<o_pc, o_index, o_time, o_deadline, o_wake, o_matches, o_sent, o_result>>

concVars == <<q_ready, q_running, q_log, q_await, q_nemit>>

vars == <<clientVars, managerVars, plannerVars, runnerVars, executorVars, busVars, listenerVars, cliVars, codecVars, ocrVars, concVars>>

\* variables that no DeviceClient action touches
notClientVars == <<managerVars, plannerVars, runnerVars, executorVars, busVars, listenerVars, cliVars, codecVars, ocrVars, concVars>>

\* variables that no DeviceManager action touches
notManagerVars == <<clientVars, plannerVars, runnerVars, executorVars, busVars, listenerVars, cliVars, codecVars, ocrVars, concVars>>

\* variables that no TestPlanner action touches
notPlannerVars == <<clientVars, managerVars, runnerVars, executorVars, busVars, listenerVars, cliVars, codecVars, ocrVars, concVars>>

\* variables that no TestRunner action touches
notRunnerVars == <<clientVars, managerVars, plannerVars, executorVars, busVars, listenerVars, cliVars, codecVars, ocrVars, concVars>>

\* variables that no ParallelExecutor action touches
notExecutorVars == <<clientVars, managerVars, plannerVars, runnerVars, busVars, listenerVars, cliVars, codecVars, ocrVars, concVars>>

\* variables that neither a ParallelExecutor nor a DeviceManager action touches
notExecManagerVars == <<clientVars, plannerVars, runnerVars, busVars, listenerVars, cliVars, codecVars, ocrVars, concVars>>

\* variables that no EventBus action touches
notBusVars == <<clientVars, managerVars, plannerVars, runnerVars, executorVars, listenerVars, cliVars, codecVars, ocrVars, concVars>>

\* variables that no _listen_events action touches
notListenerVars == <<clientVars, managerVars, plannerVars, runnerVars, executorVars, busVars, cliVars, codecVars, ocrVars, concVars>>

\* variables that no run command action touches
notCliVars == <<clientVars, managerVars, plannerVars, runnerVars, executorVars, busVars, listenerVars, codecVars, ocrVars, concVars>>

\* variables that no codec action touches
notCodecVars == <<clientVars, managerVars, plannerVars, runnerVars, executorVars, busVars, listenerVars, cliVars, ocrVars, concVars>>

\* variables that no ocr_click action touches
notOcrVars == <<clientVars, managerVars, plannerVars, runnerVars, executorVars, busVars, listenerVars, cliVars, codecVars, concVars>>

\* variables that no concurrent-emit action touches
notConcVars == <<clientVars, managerVars, plannerVars, runnerVars, executorVars, busVars, listenerVars, cliVars, codecVars, ocrVars>>

NoMsg == [id |-> 0, type |-> "none", ok |-> FALSE]

\* Message.request (protocol.py:36-44): a request frame with a fresh id
request(i) == [id |-> i, type |-> "request", ok |-> TRUE]

\* a response frame of the agent: it reuses the id of the request
response(i, ok) == [id |-> i, type |-> "response", ok |-> ok]

\* Message.is_success (protocol.py:50-52)
is_success(m) == m.type = "response" /\ m.ok

InitClient ==
  /\ control_ws = NoSock
  /\ event_ws = NoSock
  /\ pending = {}
  /\ event_handlers = 0
  /\ event_listener_task = NoSock
  /\ connected = FALSE
  /\ ctlState = [n \in SockIds |-> "unopened"]
  /\ evtState = [n \in SockIds |-> "unopened"]
  /\ ctlReader = [n \in SockIds |-> "none"]
  /\ evtReader = [n \in SockIds |-> "none"]
  /\ future = [i \in ReqIds |-> "none"]
  /\ futureResult = [i \in ReqIds |-> NoMsg]
  /\ sendPc = [i \in ReqIds |-> "unused"]
  /\ sendOutcome = [i \in ReqIds |-> "none"]
  /\ sendReturned = [i \in ReqIds |-> NoMsg]
  /\ nextReq = 1
  /\ cpc = "idle"
  /\ cStartedConnected = FALSE
  /\ nSockets = 0
  /\ dpc = "idle"
  /\ wire = [n \in SockIds |-> <<>>]
  /\ agentInbox = [n \in SockIds |-> {}]
  /\ agentWritten = <<>>
  /\ sent = {}
  /\ nEvents = 0
  /\ notified = 0

\* ------------------------------------------------------------ connect()
\* connect() is entered: nothing is checked before the first websockets.connect
ConnectBegin(limit) ==
  /\ cpc = "idle"
  /\ nSockets < limit
  /\ cpc' = "control"
  /\ cStartedConnected' = connected
  /\ nSockets' = nSockets + 1
  /\ UNCHANGED <<control_ws, event_ws, pending, event_handlers, event_listener_task,
                 connected, ctlState, evtState, ctlReader, evtReader, future,
                 futureResult, sendPc, sendOutcome, sendReturned, nextReq, dpc, wire,
                 agentInbox, agentWritten, sent, nEvents, notified>>
  /\ UNCHANGED notClientVars

\* the control socket opens and is stored in _control_ws
ConnectControlOk ==
  /\ cpc = "control"
  /\ control_ws' = nSockets
  /\ ctlState' = [ctlState EXCEPT ![nSockets] = "open"]
  /\ cpc' = "event"
  /\ UNCHANGED <<event_ws, pending, event_handlers, event_listener_task, connected,
                 evtState, ctlReader, evtReader, future, futureResult, sendPc,
                 sendOutcome, sendReturned, nextReq, cStartedConnected, nSockets, dpc,
                 wire, agentInbox, agentWritten, sent, nEvents, notified>>
  /\ UNCHANGED notClientVars

\* websockets.connect fails or times out: ConnectionError is raised, fields stay as they are
ConnectFail ==
  /\ cpc \in {"control", "event"}
  /\ cpc' = "idle"
  /\ UNCHANGED <<control_ws, event_ws, pending, event_handlers, event_listener_task,
                 connected, ctlState, evtState, ctlReader, evtReader, future,
                 futureResult, sendPc, sendOutcome, sendReturned, nextReq,
                 cStartedConnected, nSockets, dpc, wire, agentInbox, agentWritten,
                 sent, nEvents, notified>>
  /\ UNCHANGED notClientVars

\* the event socket opens; both reader tasks are created; _connected = True
ConnectEventOk ==
  /\ cpc = "event"
  /\ event_ws' = nSockets
  /\ evtState' = [evtState EXCEPT ![nSockets] = "open"]
  /\ event_listener_task' = nSockets
  /\ evtReader' = [evtReader EXCEPT ![nSockets] = "running"]
  /\ ctlReader' = [ctlReader EXCEPT ![nSockets] = "running"]
  /\ connected' = TRUE
  /\ cpc' = "idle"
  /\ UNCHANGED <<control_ws, pending, event_handlers, ctlState, future, futureResult,
                 sendPc, sendOutcome, sendReturned, nextReq, cStartedConnected,
                 nSockets, dpc, wire, agentInbox, agentWritten, sent, nEvents, notified>>
  /\ UNCHANGED notClientVars

\* (mutant) disconnect() sets the exception on every future of the table,
\* done or not
FailPending_All(fut) ==
  [i \in ReqIds |-> IF i \in pending THEN "exception" ELSE fut[i]]

\* --------------------------------------------------------- disconnect()
\* the loop of disconnect() over _pending.values(): every future not yet done
\* gets ConnectionError("Disconnected")
FailPending(fut) ==
  [i \in ReqIds |-> IF i \in pending /\ fut[i] = "pending" THEN "exception" ELSE fut[i]]

\* _connected = False; the event listener task is cancelled; close() of the
\* control socket is awaited (when there is no control socket nothing is
\* awaited and the call runs to its end)
DisconnectBegin ==
  /\ dpc = "idle"
  /\ connected' = FALSE
  /\ evtReader' = IF event_listener_task # NoSock /\ evtReader[event_listener_task] = "running"
                    THEN [evtReader EXCEPT ![event_listener_task] = "cancelled"]
                    ELSE evtReader
  /\ IF control_ws # NoSock
       THEN /\ ctlState' = [ctlState EXCEPT ![control_ws] = "closed"]
            /\ dpc' = "control"
            /\ UNCHANGED <<future, pending>>
       ELSE /\ future' = FailPending(future)
            /\ pending' = {}
            /\ UNCHANGED <<ctlState, dpc>>
  /\ UNCHANGED <<control_ws, event_ws, event_handlers, event_listener_task, evtState,
                 ctlReader, futureResult, sendPc, sendOutcome, sendReturned, nextReq,
                 cpc, cStartedConnected, nSockets, wire, agentInbox, agentWritten,
                 sent, nEvents, notified>>
  /\ UNCHANGED notClientVars

\* the control socket is closed; close() of the event socket is awaited, if
\* there is one, else the call runs to its end
DisconnectCloseEvent ==
  /\ dpc = "control"
  /\ IF event_ws # NoSock
       THEN /\ evtState' = [evtState EXCEPT ![event_ws] = "closed"]
            /\ dpc' = "event"
            /\ UNCHANGED <<future, pending>>
       ELSE /\ future' = FailPending(future)
            /\ pending' = {}
            /\ dpc' = "idle"
            /\ UNCHANGED evtState
  /\ UNCHANGED <<control_ws, event_ws, event_handlers, event_listener_task, connected,
                 ctlState, ctlReader, evtReader, futureResult, sendPc, sendOutcome,
                 sendReturned, nextReq, cpc, cStartedConnected, nSockets, wire,
                 agentInbox, agentWritten, sent, nEvents, notified>>
  /\ UNCHANGED notClientVars

\* both sockets are closed: the pending futures are failed and the table is cleared
DisconnectFinish ==
  /\ dpc = "event"
  /\ future' = FailPending(future)
  /\ pending' = {}
  /\ dpc' = "idle"
  /\ UNCHANGED <<control_ws, event_ws, event_handlers, event_listener_task, connected,
                 ctlState, evtState, ctlReader, evtReader, futureResult, sendPc,
                 sendOutcome, sendReturned, nextReq, cpc, cStartedConnected, nSockets,
                 wire, agentInbox, agentWritten, sent, nEvents, notified>>
  /\ UNCHANGED notClientVars

\* ---------------------------------------------------------------- send()
\* "if not self._control_ws: raise ConnectionError": nothing is installed
SendNotConnected ==
  /\ nextReq \in ReqIds
  /\ control_ws = NoSock
  /\ sendPc' = [sendPc EXCEPT ![nextReq] = "done"]
  /\ sendOutcome' = [sendOutcome EXCEPT ![nextReq] = "not_connected"]
  /\ nextReq' = nextReq + 1
  /\ UNCHANGED <<control_ws, event_ws, pending, event_handlers, event_listener_task,
                 connected, ctlState, evtState, ctlReader, evtReader, future,
                 futureResult, sendReturned, cpc, cStartedConnected, nSockets, dpc,
                 wire, agentInbox, agentWritten, sent, nEvents, notified>>
  /\ UNCHANGED notClientVars

\* the slot is installed under the fresh id, then the frame is written to the
\* control socket: on an open socket the agent receives it and the call goes
\* on to wait; on a closed one the write raises and the call ends there
SendBegin ==
  /\ nextReq \in ReqIds
  /\ control_ws # NoSock
  /\ LET i == nextReq
         msg == request(i) IN
     /\ pending' = pending \cup {msg.id}
     /\ future' = [future EXCEPT ![i] = "pending"]
     /\ IF ctlState[control_ws] = "open"
          THEN /\ sent' = sent \cup {<<msg.type, msg.id>>}
               /\ agentInbox' = [agentInbox EXCEPT ![control_ws] = @ \cup {msg.id}]
               /\ sendPc' = [sendPc EXCEPT ![i] = "waiting"]
               /\ UNCHANGED sendOutcome
          ELSE /\ sendPc' = [sendPc EXCEPT ![i] = "done"]
               /\ sendOutcome' = [sendOutcome EXCEPT ![i] = "write_failed"]
               /\ UNCHANGED <<sent, agentInbox>>
     /\ nextReq' = nextReq + 1
  /\ UNCHANGED <<control_ws, event_ws, event_handlers, event_listener_task, connected,
                 ctlState, evtState, ctlReader, evtReader, futureResult, sendReturned,
                 cpc, cStartedConnected, nSockets, dpc, wire, agentWritten, nEvents,
                 notified>>
  /\ UNCHANGED notClientVars

\* wait_for returns the future's result, or re-raises the future's exception
SendComplete(i) ==
  /\ sendPc[i] = "waiting"
  /\ future[i] \in {"result", "exception"}
  /\ sendPc' = [sendPc EXCEPT ![i] = "done"]
  /\ IF future[i] = "exception"
       THEN /\ sendOutcome' = [sendOutcome EXCEPT ![i] = "disconnected"]
            /\ UNCHANGED sendReturned
       ELSE IF is_success(futureResult[i])
         THEN /\ sendOutcome' = [sendOutcome EXCEPT ![i] = "response"]
              /\ sendReturned' = [sendReturned EXCEPT ![i] = futureResult[i]]
         ELSE /\ sendOutcome' = [sendOutcome EXCEPT ![i] = "agent_error"]
              /\ UNCHANGED sendReturned
  /\ UNCHANGED <<control_ws, event_ws, pending, event_handlers, event_listener_task,
                 connected, ctlState, evtState, ctlReader, evtReader, future,
                 futureResult, nextReq, cpc, cStartedConnected, nSockets, dpc, wire,
                 agentInbox, agentWritten, sent, nEvents, notified>>
  /\ UNCHANGED notClientVars

\* the timeout of wait_for elapses before the future is done: wait_for cancels
\* the future and raises asyncio.TimeoutError into send
TimeoutElapses(i) ==
  /\ sendPc[i] = "waiting"
  /\ future[i] = "pending"
  /\ future' = [future EXCEPT ![i] = "cancelled"]
  /\ sendPc' = [sendPc EXCEPT ![i] = "timed_out"]
  /\ UNCHANGED <<control_ws, event_ws, pending, event_handlers, event_listener_task,
                 connected, ctlState, evtState, ctlReader, evtReader, futureResult,
                 sendOutcome, sendReturned, nextReq, cpc, cStartedConnected, nSockets,
                 dpc, wire, agentInbox, agentWritten, sent, nEvents, notified>>
  /\ UNCHANGED notClientVars

\* (mutant) the except branch also writes Message.cancel(id) to the control socket
TimeoutFrames_Cancel(i) == {<<"cancel", i>>}

\* frames the except branch of send writes to the control socket: none
TimeoutFrames(i) == {}

\* "except asyncio.TimeoutError": the slot is popped and TimeoutError is raised
SendTimeout(i) ==
  /\ sendPc[i] = "timed_out"
  /\ pending' = pending \ {i}
  /\ sent' = sent \cup TimeoutFrames(i)
  /\ sendPc' = [sendPc EXCEPT ![i] = "done"]
  /\ sendOutcome' = [sendOutcome EXCEPT ![i] = "timeout"]
  /\ UNCHANGED <<control_ws, event_ws, event_handlers, event_listener_task, connected,
                 ctlState, evtState, ctlReader, evtReader, future, futureResult,
                 sendReturned, nextReq, cpc, cStartedConnected, nSockets, dpc, wire,
                 agentInbox, agentWritten, nEvents, notified>>
  /\ UNCHANGED notClientVars

\* the task awaiting in wait_for is cancelled by its owner: wait_for cancels
\* the future and CancelledError leaves send; no except branch of send catches it
SendCancelled(i) ==
  /\ sendPc[i] = "waiting"
  /\ future' = [future EXCEPT ![i] = IF @ = "pending" THEN "cancelled" ELSE @]
  /\ sendPc' = [sendPc EXCEPT ![i] = "done"]
  /\ sendOutcome' = [sendOutcome EXCEPT ![i] = "cancelled"]
  /\ UNCHANGED <<control_ws, event_ws, pending, event_handlers, event_listener_task,
                 connected, ctlState, evtState, ctlReader, evtReader, futureResult,
                 sendReturned, nextReq, cpc, cStartedConnected, nSockets, dpc, wire,
                 agentInbox, agentWritten, sent, nEvents, notified>>
  /\ UNCHANGED notClientVars

\* ------------------------------------------------------ _listen_control
\* (mutant) responses are matched to requests by order: the oldest slot is taken
SlotKey_Oldest(msg) ==
  IF pending = {} THEN msg.id ELSE CHOOSE k \in pending : \A j \in pending : k <= j

\* the key under which _listen_control looks a frame up in the table: its id
SlotKey(msg) == msg.id

\* one iteration of "async for raw in self._control_ws": a response pops the
\* slot of its id and resolves the future, unless the future is already done;
\* a frame whose id has no slot changes nothing
ControlDeliver(n) ==
  /\ ctlReader[n] = "running"
  /\ wire[n] # <<>>
  /\ LET msg == Head(wire[n])
         key == SlotKey(msg)
         isResponse == msg.type = "response"
         hit == isResponse /\ key \in pending /\ future[key] = "pending" IN
     /\ wire' = [wire EXCEPT ![n] = Tail(@)]
     /\ pending' = IF isResponse THEN pending \ {key} ELSE pending
     /\ future' = IF hit THEN [future EXCEPT ![key] = "result"] ELSE future
     /\ futureResult' = IF hit THEN [futureResult EXCEPT ![key] = msg] ELSE futureResult
  /\ UNCHANGED <<control_ws, event_ws, event_handlers, event_listener_task, connected,
                 ctlState, evtState, ctlReader, evtReader, sendPc, sendOutcome,
                 sendReturned, nextReq, cpc, cStartedConnected, nSockets, dpc,
                 agentInbox, agentWritten, sent, nEvents, notified>>
  /\ UNCHANGED notClientVars

\* the iteration over a closed control socket ends. websockets ends the
\* iterator silently on a clean close (ConnectionClosedOK) and raises
\* ConnectionClosed on an unclean one, which the except branch turns into
\* _connected = False; frames still unread when the task ends are lost
ControlReaderEnd(n, clean) ==
  /\ ctlReader[n] = "running"
  /\ ctlState[n] = "closed"
  /\ ctlReader' = [ctlReader EXCEPT ![n] = "ended"]
  /\ connected' = IF clean THEN connected ELSE FALSE
  /\ wire' = [wire EXCEPT ![n] = <<>>]
  /\ UNCHANGED <<control_ws, event_ws, pending, event_handlers, event_listener_task,
                 ctlState, evtState, evtReader, future, futureResult, sendPc,
                 sendOutcome, sendReturned, nextReq, cpc, cStartedConnected, nSockets,
                 dpc, agentInbox, agentWritten, sent, nEvents, notified>>
  /\ UNCHANGED notClientVars

\* ------------------------------------------------------- the agent side
\* the agent answers a request it received on control socket n (it may answer
\* in any order, and more than once)
AgentReply(n, i, ok) ==
  /\ ctlState[n] = "open"
  /\ i \in agentInbox[n]
  /\ Len(agentWritten) < MaxReq
  /\ wire' = [wire EXCEPT ![n] = Append(@, response(i, ok))]
  /\ agentWritten' = Append(agentWritten, i)
  /\ UNCHANGED <<control_ws, event_ws, pending, event_handlers, event_listener_task,
                 connected, ctlState, evtState, ctlReader, evtReader, future,
                 futureResult, sendPc, sendOutcome, sendReturned, nextReq, cpc,
                 cStartedConnected, nSockets, dpc, agentInbox, sent, nEvents, notified>>
  /\ UNCHANGED notClientVars

\* the peer closes control socket n, or the connection breaks
PeerClose(n) ==
  /\ ctlState[n] = "open"
  /\ ctlState' = [ctlState EXCEPT ![n] = "closed"]
  /\ UNCHANGED <<control_ws, event_ws, pending, event_handlers, event_listener_task,
                 connected, evtState, ctlReader, evtReader, future, futureResult,
                 sendPc, sendOutcome, sendReturned, nextReq, cpc, cStartedConnected,
                 nSockets, dpc, wire, agentInbox, agentWritten, sent, nEvents, notified>>
  /\ UNCHANGED notClientVars

\* ------------------------------------------- on_event and _listen_events
\* on_event appends a handler
OnEvent ==
  /\ event_handlers < MaxHandlers
  /\ event_handlers' = event_handlers + 1
  /\ UNCHANGED <<control_ws, event_ws, pending, event_listener_task, connected,
                 ctlState, evtState, ctlReader, evtReader, future, futureResult,
                 sendPc, sendOutcome, sendReturned, nextReq, cpc, cStartedConnected,
                 nSockets, dpc, wire, agentInbox, agentWritten, sent, nEvents, notified>>
  /\ UNCHANGED notClientVars

\* the function on_event returned removes the handler
Unsubscribe ==
  /\ event_handlers > 0
  /\ event_handlers' = event_handlers - 1
  /\ UNCHANGED <<control_ws, event_ws, pending, event_listener_task, connected,
                 ctlState, evtState, ctlReader, evtReader, future, futureResult,
                 sendPc, sendOutcome, sendReturned, nextReq, cpc, cStartedConnected,
                 nSockets, dpc, wire, agentInbox, agentWritten, sent, nEvents, notified>>
  /\ UNCHANGED notClientVars

\* one iteration of "async for raw in self._event_ws": the frame the agent
\* pushed is handed to every registered handler
EventDeliver(n) ==
  /\ evtReader[n] = "running"
  /\ evtState[n] = "open"
  /\ nEvents < MaxEvents
  /\ nEvents' = nEvents + 1
  /\ notified' = notified + event_handlers
  /\ UNCHANGED <<control_ws, event_ws, pending, event_handlers, event_listener_task,
                 connected, ctlState, evtState, ctlReader, evtReader, future,
                 futureResult, sendPc, sendOutcome, sendReturned, nextReq, cpc,
                 cStartedConnected, nSockets, dpc, wire, agentInbox, agentWritten, sent>>
  /\ UNCHANGED notClientVars

\* =========================================================== DeviceManager
Serials == {"A", "B"}
Callers == 1..MaxCallers
Blocks == 1..MaxBlocks
NoClient == 0
NoPort == 0

\* "self._next_local_port = 28900"
FirstLocalPort == 28900
\* "self._next_local_port += 3": ports reserved per device
PortsPerDevice == 3

\* the DeviceClient built by connect() is identified by the port block it is
\* configured with (control_port = local_port): block k starts at PortOf(k)
PortOf(k) == FirstLocalPort + PortsPerDevice * (k - 1)
ClientAt(local_port) == ((local_port - FirstLocalPort) \div PortsPerDevice) + 1

\* AdbDevice records "adb devices -l" can list: distinct serials, each with a state
AdbDevices == [serial : Serials, state : {"device", "offline"}]
DeviceLists ==
  {<<>>} \cup {<<d>> : d \in AdbDevices}
         \cup {<<d, e>> : <<d, e>> \in {x \in AdbDevices \X AdbDevices : x[1].serial # x[2].serial}}

NoResult == [kind |-> "none", client |-> NoClient, list |-> <<>>]

\* the frame of a caller that is in no manager call
IdleFrame ==
  [op |-> "idle", pc |-> "idle", serial |-> "", local_port |-> NoPort, offset |-> 0,
   client |-> NoClient, discovered |-> <<>>, devices |-> <<>>, got |-> <<>>,
   log |-> <<>>, keys |-> <<>>, res |-> NoResult]

InitManager ==
  /\ clients = [s \in Serials |-> NoClient]
  /\ port_map = [s \in Serials |-> NoPort]
  /\ next_local_port = FirstLocalPort
  /\ forwards = {}
  /\ clientState = [k \in Blocks |-> "none"]
  /\ call = [c \in Callers |-> IdleFrame]

\* callers that are inside a manager call (or have not yet taken its result)
Active == {c \in Callers : call[c].pc # "idle"}

\* DeviceClient.is_connected
is_connected(k) == clientState[k] = "connected"

\* (mutant) connect() never reuses a pooled client
HasConnectedClient_Never(s) == FALSE

\* "serial in self._clients and self._clients[serial].is_connected"
HasConnectedClient(s) == clients[s] # NoClient /\ is_connected(clients[s])

\* discover(): "[d for d in devices if d.state == "device"]"
online(devices) == SelectSeq(devices, LAMBDA d : d.state = "device")

\* (mutant) "for offset in range(2)"
RemoveCount_Two == PortsPerDevice - 1

\* disconnect(): "for offset in range(3)"
RemoveCount == 3

\* (mutant) connect_all does not catch: the first failing connect ends it
Returned_Raise(f, kind, k) ==
  IF f.op = "connect" \/ kind # "client"
    THEN [f EXCEPT !.pc = "done", !.res = [kind |-> kind, client |-> k, list |-> <<>>]]
    ELSE [f EXCEPT !.pc = "loop",
                   !.got = Append(@, k),
                   !.log = Append(@, [serial |-> f.serial, ok |-> TRUE, client |-> k]),
                   !.devices = Tail(@)]

\* How connect(serial) hands its outcome to frame f. Called directly, the call
\* is over: the client is returned or the error is raised to the caller.
\* Called from connect_all, the client is appended to the list, or the
\* exception is caught and logged, and the loop goes on to the next device.
Returned(f, kind, k) ==
  IF f.op = "connect"
    THEN [f EXCEPT !.pc = "done", !.res = [kind |-> kind, client |-> k, list |-> <<>>]]
    ELSE [f EXCEPT !.pc = "loop",
                   !.got = IF kind = "client" THEN Append(@, k) ELSE @,
                   !.log = Append(@, [serial |-> f.serial, ok |-> kind = "client", client |-> k]),
                   !.devices = Tail(@)]

\* (mutant) "self._next_local_port += 2": the counter advances by less than
\* the block it hands out
EnterConnect_Overlap(c, f, s) ==
  IF HasConnectedClient(s)
    THEN /\ call' = [call EXCEPT ![c] = Returned([f EXCEPT !.serial = s], "client", clients[s])]
         /\ UNCHANGED next_local_port
    ELSE /\ next_local_port < PortOf(MaxBlocks + 1)
         /\ call' = [call EXCEPT ![c] = [f EXCEPT !.pc = "forward", !.serial = s,
                                                  !.local_port = next_local_port,
                                                  !.offset = 0]]
         /\ next_local_port' = next_local_port + PortsPerDevice - 1

\* connect(serial) up to its first await: the pooled client is returned if it
\* is connected; else a block of three ports is taken from the counter and
\* the first adb forward is awaited
EnterConnect(c, f, s) ==
  IF HasConnectedClient(s)
    THEN /\ call' = [call EXCEPT ![c] = Returned([f EXCEPT !.serial = s], "client", clients[s])]
         /\ UNCHANGED next_local_port
    ELSE /\ next_local_port < PortOf(MaxBlocks + 1)
         /\ call' = [call EXCEPT ![c] = [f EXCEPT !.pc = "forward", !.serial = s,
                                                  !.local_port = next_local_port,
                                                  !.offset = 0]]
         /\ next_local_port' = next_local_port + PortsPerDevice

\* a caller calls connect(serial)
MgrConnect(c, s, limit) ==
  /\ call[c].pc = "idle"
  /\ Cardinality(Active) < limit
  /\ EnterConnect(c, [IdleFrame EXCEPT !.op = "connect"], s)
  /\ UNCHANGED <<clients, port_map, forwards, clientState>>
  /\ UNCHANGED notManagerVars

\* "ok = await self.adb.forward(serial, local_port + offset, remote_port)":
\* the forward is installed and the loop goes on, to client.connect() after
\* the third; or adb fails and DeviceOfflineError is raised
MgrForward(c, ok) ==
  LET f == call[c] IN
  /\ f.pc = "forward"
  /\ IF ok
       THEN /\ forwards' = forwards \cup {<<f.serial, f.local_port + f.offset>>}
            /\ call' = [call EXCEPT ![c] =
                          IF f.offset + 1 < PortsPerDevice
                            THEN [f EXCEPT !.offset = f.offset + 1]
                            ELSE [f EXCEPT !.pc = "client_connect"]]
       ELSE /\ call' = [call EXCEPT ![c] = Returned(f, "device_offline", NoClient)]
            /\ UNCHANGED forwards
  /\ UNCHANGED <<clients, port_map, next_local_port, clientState>>
  /\ UNCHANGED notManagerVars

\* "await client.connect()" on the client built for the block: it connects,
\* is registered under the serial with its port, and is returned; or it
\* raises ConnectionError, which leaves connect()
MgrClientConnect(c, ok) ==
  LET f == call[c]
      k == ClientAt(f.local_port) IN
  /\ f.pc = "client_connect"
  /\ IF ok
       THEN /\ clientState' = [clientState EXCEPT ![k] = "connected"]
            /\ clients' = [clients EXCEPT ![f.serial] = k]
            /\ port_map' = [port_map EXCEPT ![f.serial] = f.local_port]
            /\ call' = [call EXCEPT ![c] = Returned(f, "client", k)]
       ELSE /\ clientState' = [clientState EXCEPT ![k] = "failed"]
            /\ call' = [call EXCEPT ![c] = Returned(f, "connection_error", NoClient)]
            /\ UNCHANGED <<clients, port_map>>
  /\ UNCHANGED <<next_local_port, forwards>>
  /\ UNCHANGED notManagerVars

\* connect_all() up to its loop: "devices = await self.discover()", adb
\* listing the devices of listed
EnterConnectAll(c, listed) ==
  call' = [call EXCEPT ![c] = [IdleFrame EXCEPT !.op = "connect_all", !.pc = "loop",
                                               !.discovered = listed,
                                               !.devices = online(listed)]]

\* connect_all(): "devices = await self.discover()" with what adb lists
MgrConnectAll(c, listed, limit) ==
  /\ call[c].pc = "idle"
  /\ Cardinality(Active) < limit
  /\ EnterConnectAll(c, listed)
  /\ UNCHANGED <<clients, port_map, next_local_port, forwards, clientState>>
  /\ UNCHANGED notManagerVars

\* connect_all(): "for device in devices": connect(device.serial) is entered
\* for the next device, or the list of clients is returned
MgrConnectAllLoop(c) ==
  LET f == call[c] IN
  /\ f.pc = "loop"
  /\ IF f.devices = <<>>
       THEN /\ call' = [call EXCEPT ![c] =
                          [f EXCEPT !.pc = "done",
                                    !.res = [kind |-> "list", client |-> NoClient, list |-> f.got]]]
            /\ UNCHANGED next_local_port
       ELSE EnterConnect(c, f, Head(f.devices).serial)
  /\ UNCHANGED <<clients, port_map, forwards, clientState>>
  /\ UNCHANGED notManagerVars

\* How disconnect(serial) returns in frame f. Called directly, the call is
\* over. Called from disconnect_all, the loop goes on to the next serial.
DisconnectReturned(f) ==
  IF f.op = "disconnect"
    THEN [f EXCEPT !.pc = "done", !.res = [NoResult EXCEPT !.kind = "done"]]
    ELSE [f EXCEPT !.pc = "all_loop", !.keys = Tail(@)]

\* disconnect(): "local_port = self._port_map.pop(serial, None)" and the way
\* on from it: the three forward_remove calls if there was a port, else the end
PopPort(c, f) ==
  /\ port_map' = [port_map EXCEPT ![f.serial] = NoPort]
  /\ call' = [call EXCEPT ![c] =
                IF port_map[f.serial] # NoPort
                  THEN [f EXCEPT !.pc = "forward_remove", !.offset = 0,
                                 !.local_port = port_map[f.serial]]
                  ELSE DisconnectReturned(f)]

\* disconnect(serial) up to its first await: the client is popped from the
\* pool; with a client, client.disconnect() is awaited; without one the port
\* is popped at once
EnterDisconnect(c, f, s) ==
  /\ clients' = [clients EXCEPT ![s] = NoClient]
  /\ IF clients[s] # NoClient
       THEN /\ call' = [call EXCEPT ![c] = [f EXCEPT !.serial = s,
                                                     !.pc = "client_disconnect",
                                                     !.client = clients[s]]]
            /\ UNCHANGED port_map
       ELSE PopPort(c, [f EXCEPT !.serial = s, !.client = NoClient])

\* a caller calls disconnect(serial)
MgrDisconnect(c, s, limit) ==
  /\ call[c].pc = "idle"
  /\ Cardinality(Active) < limit
  /\ EnterDisconnect(c, [IdleFrame EXCEPT !.op = "disconnect"], s)
  /\ UNCHANGED <<next_local_port, forwards, clientState>>
  /\ UNCHANGED notManagerVars

\* client.disconnect() has closed the client; the port is popped
MgrClientDisconnected(c) ==
  LET f == call[c] IN
  /\ f.pc = "client_disconnect"
  /\ clientState' = [clientState EXCEPT ![f.client] = "disconnected"]
  /\ PopPort(c, f)
  /\ UNCHANGED <<clients, next_local_port, forwards>>
  /\ UNCHANGED notManagerVars

\* "await self.adb.forward_remove(serial, local_port + offset)"
MgrForwardRemove(c) ==
  LET f == call[c] IN
  /\ f.pc = "forward_remove"
  /\ forwards' = forwards \ {<<f.serial, f.local_port + f.offset>>}
  /\ call' = [call EXCEPT ![c] =
                IF f.offset + 1 < RemoveCount
                  THEN [f EXCEPT !.offset = f.offset + 1]
                  ELSE DisconnectReturned(f)]
  /\ UNCHANGED <<clients, port_map, next_local_port, clientState>>
  /\ UNCHANGED notManagerVars

\* the serials that have an entry in the pool
PoolKeys == {s \in Serials : clients[s] # NoClient}

\* the orders "list(self._clients.keys())" can have: the pool's insertion
\* order, which differs from run to run with the order of the connect calls
KeyOrders ==
  {q \in UNION {[1..n -> Serials] : n \in 0..Cardinality(Serials)} :
     /\ Len(q) = Cardinality(PoolKeys)
     /\ {q[j] : j \in 1..Len(q)} = PoolKeys}

\* the scope of "async with DeviceManager()" is left: __aexit__ awaits
\* disconnect_all(), which takes "list(self._clients.keys())"
MgrDisconnectAll(c, order, limit) ==
  /\ call[c].pc = "idle"
  /\ Cardinality(Active) < limit
  /\ order \in KeyOrders
  /\ call' = [call EXCEPT ![c] = [IdleFrame EXCEPT !.op = "disconnect_all",
                                                   !.pc = "all_loop", !.keys = order]]
  /\ UNCHANGED <<clients, port_map, next_local_port, forwards, clientState>>
  /\ UNCHANGED notManagerVars

\* disconnect_all(): "for serial in ...: await self.disconnect(serial)":
\* disconnect is entered for the next serial, or the call ends
MgrDisconnectAllLoop(c) ==
  LET f == call[c] IN
  /\ f.pc = "all_loop"
  /\ IF f.keys = <<>>
       THEN /\ call' = [call EXCEPT ![c] =
                          [f EXCEPT !.pc = "done", !.res = [NoResult EXCEPT !.kind = "done"]]]
            /\ UNCHANGED <<clients, port_map>>
       ELSE EnterDisconnect(c, f, Head(f.keys))
  /\ UNCHANGED <<next_local_port, forwards, clientState>>
  /\ UNCHANGED notManagerVars

\* "await client.disconnect()" raises while closing a socket, after
\* "_connected = False": nothing in disconnect() or disconnect_all() catches,
\* so the exception leaves the manager call with the port still mapped, the
\* forwards installed and the serials after this one untouched
MgrClientDisconnectRaises(c) ==
  LET f == call[c] IN
  /\ f.pc = "client_disconnect"
  /\ clientState' = [clientState EXCEPT ![f.client] = "close_failed"]
  /\ call' = [call EXCEPT ![c] =
                [f EXCEPT !.pc = "done", !.res = [NoResult EXCEPT !.kind = "disconnect_error"]]]
  /\ UNCHANGED <<clients, port_map, next_local_port, forwards>>
  /\ UNCHANGED notManagerVars

\* the caller has taken the result (or the exception) of its call
MgrReturn(c) ==
  /\ call[c].pc = "done"
  /\ call' = [call EXCEPT ![c] = IdleFrame]
  /\ UNCHANGED <<clients, port_map, next_local_port, forwards, clientState>>
  /\ UNCHANGED notManagerVars

\* the agent of a connected client goes away: the client's control reader
\* sets _connected = False
MgrPeerDrop(k) ==
  /\ clientState[k] = "connected"
  /\ clientState' = [clientState EXCEPT ![k] = "dropped"]
  /\ UNCHANGED <<clients, port_map, next_local_port, forwards, call>>
  /\ UNCHANGED notManagerVars

\* ============================================================= TestPlanner
\* the serials a device list is made of
PlanSerials == {"A", "B", "C"}

\* TestCaseInfo.priority values
Priorities == {0, 5, 10}

\* TestCaseInfo.devices: the empty set stands for None and for [], which
\* "if test.devices:" treats alike; "Z" is a serial no device list holds
Requirements == {{}, {"B", "Z"}, {"B", "C"}}

\* lists of TestCaseInfo with distinct names: the test at place i is named i
TestLists ==
  UNION {{[i \in 1..n |-> [name |-> i, priority |-> f[i].priority, devices |-> f[i].devices]] :
            f \in [1..n -> [priority : Priorities, devices : Requirements]]} : n \in 0..MaxTests}

\* lists of distinct serials, in any order
SerialLists ==
  {q \in UNION {[1..n -> PlanSerials] : n \in 0..Cardinality(PlanSerials)} :
     \A i, j \in 1..Len(q) : i # j => q[i] # q[j]}

\* the strategy names plan() knows, and one it does not
Strategies == {"round_robin", "capability_match", "single_device", "duplicate", "fastest"}

\* ExecutionPlan(assignments=..., unassigned=...)
ExecutionPlan(assignments, unassigned) ==
  [assignments |-> assignments, unassigned |-> unassigned]

\* "{d: [] for d in devices}"
EmptyQueues(devices) == [d \in {devices[j] : j \in 1..Len(devices)} |-> <<>>]

\* (mutant) the tests are taken in the order given
sorted_AsGiven(tests) == tests

\* "sorted(tests, key=lambda t: t.priority, reverse=True)": a stable sort,
\* tests of equal priority keep the order they were given in
RECURSIVE sorted(_)
sorted(tests) ==
  IF tests = <<>> THEN <<>>
  ELSE LET n == Len(tests)
           t == tests[n]
           s == sorted(SubSeq(tests, 1, n - 1))
           k == Cardinality({j \in 1..Len(s) : s[j].priority >= t.priority})
       IN SubSeq(s, 1, k) \o <<t>> \o SubSeq(s, k + 1, Len(s))

\* (mutant) every test goes to the first device
device_at_First(devices, i) == devices[1]

\* "devices[i % len(devices)]", i counted from 0
device_at(devices, i) == devices[(i % Len(devices)) + 1]

\* "for i, test in enumerate(sorted_tests): ... assignments[device].append(test)"
RECURSIVE round_robin_loop(_, _, _, _)
round_robin_loop(assignments, sorted_tests, devices, i) ==
  IF i >= Len(sorted_tests) THEN assignments
  ELSE round_robin_loop(
         [assignments EXCEPT ![device_at(devices, i)] = Append(@, sorted_tests[i + 1])],
         sorted_tests, devices, i + 1)

\* _round_robin(tests, devices)
round_robin(tests, devices) ==
  ExecutionPlan(round_robin_loop(EmptyQueues(devices), sorted(tests), devices, 0), <<>>)

\* (mutant) the first candidate is taken whatever its load
least_loaded_First(candidates, assignments) == candidates[1]

\* "min(candidates, key=lambda d: len(assignments[d]))": the first of the
\* candidates that has the smallest queue
least_loaded(candidates, assignments) ==
  candidates[CHOOSE j \in 1..Len(candidates) :
               /\ \A m \in 1..Len(candidates) :
                    Len(assignments[candidates[j]]) <= Len(assignments[candidates[m]])
               /\ \A m \in 1..(j - 1) :
                    Len(assignments[candidates[m]]) > Len(assignments[candidates[j]])]

\* "matched = [d for d in devices if d in test.devices]"
matched(devices, test) == SelectSeq(devices, LAMBDA d : d \in test.devices)

\* the body of the loop of _capability_match for one test
capability_step(p, test, devices) ==
  IF test.devices # {}
    THEN IF matched(devices, test) # <<>>
           THEN LET target == least_loaded(matched(devices, test), p.assignments) IN
                ExecutionPlan([p.assignments EXCEPT ![target] = Append(@, test)], p.unassigned)
           ELSE ExecutionPlan(p.assignments, Append(p.unassigned, test))
    ELSE LET target == least_loaded(devices, p.assignments) IN
         ExecutionPlan([p.assignments EXCEPT ![target] = Append(@, test)], p.unassigned)

\* _capability_match(tests, devices, capabilities): "for test in tests"
RECURSIVE capability_match(_, _)
capability_match(tests, devices) ==
  IF tests = <<>> THEN ExecutionPlan(EmptyQueues(devices), <<>>)
  ELSE capability_step(capability_match(SubSeq(tests, 1, Len(tests) - 1), devices),
                       tests[Len(tests)], devices)

\* _single_device(tests, devices)
single_device(tests, devices) ==
  ExecutionPlan([d \in {devices[1]} |-> tests], <<>>)

\* _duplicate_all(tests, devices)
duplicate_all(tests, devices) ==
  ExecutionPlan([d \in {devices[j] : j \in 1..Len(devices)} |-> tests], <<>>)

\* (mutant) without devices the tests are dropped from the plan
no_devices_Dropped(tests) == ExecutionPlan(<<>>, <<>>)

\* "if not device_serials: return ExecutionPlan(unassigned=tests)"
no_devices(tests) == ExecutionPlan(<<>>, tests)

\* TestPlanner.plan(tests, device_serials, strategy)
plan(tests, device_serials, strategy) ==
  IF device_serials = <<>> THEN no_devices(tests)
  ELSE CASE strategy = "round_robin" -> round_robin(tests, device_serials)
         [] strategy = "capability_match" -> capability_match(tests, device_serials)
         [] strategy = "single_device" -> single_device(tests, device_serials)
         [] strategy = "duplicate" -> duplicate_all(tests, device_serials)
         [] OTHER -> round_robin(tests, device_serials)

\* no plan call has been made
InitPlanner ==
  /\ p_tests = <<>>
  /\ p_device_serials = <<>>
  /\ p_strategy = "round_robin"
  /\ p_plan = ExecutionPlan(<<>>, <<>>)
  /\ p_returned = FALSE

\* the arguments of a plan call about to be made
InitPlanCall ==
  /\ p_tests \in TestLists
  /\ p_device_serials \in SerialLists
  /\ p_strategy \in Strategies
  /\ p_plan = ExecutionPlan(<<>>, <<>>)
  /\ p_returned = FALSE

\* plan(tests, device_serials, strategy) runs and returns its ExecutionPlan
Plan ==
  /\ ~p_returned
  /\ p_plan' = plan(p_tests, p_device_serials, p_strategy)
  /\ p_returned' = TRUE
  /\ UNCHANGED <<p_tests, p_device_serials, p_strategy>>
  /\ UNCHANGED notPlannerVars

\* ============================================================== TestRunner
\* TestStatus
TestStatuses == {"pending", "running", "passed", "failed", "skipped", "error"}

\* TestResult(name, status, device_serial, error_message); device_serial
\* defaults to "", error_message to None (here "")
TestResult(name, status, device_serial, error_message) ==
  [name |-> name, status |-> status, device_serial |-> device_serial,
   error_message |-> error_message]

\* "last_result: TestResult | None = None"
NoLast == TestResult(0, "none", "", "")

\* What TestCaseInfo.func is. "function": the coroutine function the
\* decorator was applied to, which is what test_case registers ("func=func").
\* "wrapper": the function the decorator returns, put into a TestCaseInfo by
\* hand.
FuncKinds == {"function", "wrapper"}

\* lists of TestCaseInfo with distinct names: the test at place i is named i
RunLists ==
  UNION {{[i \in 1..n |-> [name |-> i, retry |-> f[i].retry, func |-> f[i].func]] :
            f \in [1..n -> [retry : 0..MaxRetry, func : FuncKinds]]} : n \in 0..MaxRunTests}

\* How the body of a test function can end: it returns nothing; an assert
\* fails; a DeviceClient.send inside it raises ConnectionError; it returns a
\* TestResult of its own making, of any status.
BodyEndings ==
  {[kind |-> "returns", status |-> "none"],
   [kind |-> "asserts", status |-> "none"],
   [kind |-> "transport_error", status |-> "none"]}
  \cup {[kind |-> "own_result", status |-> st] : st \in TestStatuses}

\* str(e) of the failed assert
AssertMessage == "boom"

\* "f"{type(e).__name__}: {e}""
ErrorText(b) ==
  IF b.kind = "asserts" THEN "AssertionError: boom" ELSE "ConnectionError: Disconnected"

\* "f"Test timed out after {test.timeout}s""
TimeoutText == "Test timed out after Ns"

\* What awaiting the function the decorator was applied to gives: the value
\* it returns or the exception it raises
function(test, b) ==
  CASE b.kind = "returns" -> [how |-> "value", result |-> NoLast, exc |-> b]
    [] b.kind = "own_result" ->
         [how |-> "result", result |-> TestResult(test.name, b.status, "", ""), exc |-> b]
    [] OTHER -> [how |-> "raise", result |-> NoLast, exc |-> b]

\* What awaiting the decorator's wrapper gives: a TestResult, passed when the
\* body returns (whatever it returns), failed with str(e) on AssertionError,
\* error on any other Exception
wrapper(test, b) ==
  CASE b.kind \in {"returns", "own_result"} ->
         [how |-> "result", result |-> TestResult(test.name, "passed", "", ""), exc |-> b]
    [] b.kind = "asserts" ->
         [how |-> "result", result |-> TestResult(test.name, "failed", "", AssertMessage), exc |-> b]
    [] OTHER ->
         [how |-> "result", result |-> TestResult(test.name, "error", "", ErrorText(b)), exc |-> b]

\* "await test.func(device)" when the body ends as b
func(test, b) == IF test.func = "function" THEN function(test, b) ELSE wrapper(test, b)

\* "last_result.device_serial = serial"
stamped(result, serial) == [result EXCEPT !.device_serial = serial]

\* (mutant) an exception of the handler is swallowed and the attempt passes
on_exception_Pass(test, serial, e) == TestResult(test.name, "passed", serial, "")

\* "except Exception as e: last_result = TestResult(... ERROR ...)"
on_exception(test, serial, e) == TestResult(test.name, "error", serial, ErrorText(e))

\* _run_single: last_result after an attempt whose "await wait_for(...)"
\* ended as completion c
attempt_result(test, serial, c) ==
  CASE c.how = "result" -> stamped(c.result, serial)
    [] c.how = "value" -> TestResult(test.name, "passed", serial, "")
    [] OTHER -> on_exception(test, serial, c.exc)

\* "except asyncio.TimeoutError: last_result = TestResult(... ERROR ...)"
timeout_result(test, serial) == TestResult(test.name, "error", serial, TimeoutText)

NoCompleted == [total |-> 0, passed |-> 0, failed |-> 0, error |-> 0, emitted |-> FALSE]

\* "sum(1 for r in results if r.status == status)"
count(results, status) == Cardinality({j \in 1..Len(results) : results[j].status = status})

\* client.serial of the device the run is on
RunSerials == {"A"}

\* Event(type, source="runner", data)
Event(type, data) == [type |-> type, source |-> "runner", data |-> data]

\* (mutant) emit loses the event
runner_emit_Dropped(events, event) == events

\* "await self.event_bus.emit(event)" seen from the run: the event is handed
\* to the bus after every event emitted before it
runner_emit(events, event) == Append(events, event)

\* the data of run.completed: the counts over results
run_completed(results) ==
  [total |-> Len(results), passed |-> count(results, "passed"),
   failed |-> count(results, "failed"), error |-> count(results, "error")]

\* no run call has been made
InitRunner ==
  /\ r_tests = <<>>
  /\ r_serial = ""
  /\ r_pc = "idle"
  /\ r_index = 0
  /\ r_attempt = 0
  /\ r_last = NoLast
  /\ r_results = <<>>
  /\ r_completed = NoCompleted
  /\ r_body = "none"
  /\ r_failed = TRUE
  /\ r_log = <<>>
  /\ r_events = <<>>

\* the test the run is at
current == r_tests[r_index + 1]

\* run(tests, client) is called: "results = []" and run.started is emitted
RunBegin(tests, serial) ==
  /\ r_pc = "idle"
  /\ r_tests' = tests
  /\ r_serial' = serial
  /\ r_pc' = "loop"
  /\ r_events' = runner_emit(r_events, Event("run.started",
                                             [total |-> Len(tests), device |-> serial]))
  /\ UNCHANGED <<r_index, r_attempt, r_last, r_results, r_completed, r_body, r_failed, r_log>>
  /\ UNCHANGED notRunnerVars

\* "for i, test in enumerate(tests)": test.started is emitted and
\* _run_single entered for the next test; after the last one run.completed
\* is emitted with the counts and the results are returned
RunLoop ==
  /\ r_pc = "loop"
  /\ IF r_index < Len(r_tests)
       THEN /\ r_pc' = "single"
            /\ r_attempt' = 0
            /\ r_last' = NoLast
            /\ r_body' = "none"
            /\ r_failed' = TRUE
            /\ r_events' = runner_emit(r_events, Event("test.started",
                                                       [name |-> current.name,
                                                        index |-> r_index]))
            /\ UNCHANGED r_completed
       ELSE /\ r_pc' = "done"
            /\ r_completed' = [total |-> Len(r_results),
                               passed |-> count(r_results, "passed"),
                               failed |-> count(r_results, "failed"),
                               error |-> count(r_results, "error"),
                               emitted |-> TRUE]
            /\ r_events' = runner_emit(r_events, Event("run.completed",
                                                       run_completed(r_results)))
            /\ UNCHANGED <<r_attempt, r_last, r_body, r_failed>>
  /\ UNCHANGED <<r_tests, r_serial, r_index, r_results, r_log>>
  /\ UNCHANGED notRunnerVars

\* (mutant) the attempts go on after one has passed
stop_retrying_Never(last_result) == last_result # last_result

\* "if last_result and last_result.status == TestStatus.PASSED: break"
stop_retrying(last_result) == last_result # NoLast /\ last_result.status = "passed"

\* _run_single, "for attempt in range(test.retry + 1)": the handler is
\* invoked under wait_for; or, after a passed attempt or the last attempt,
\* last_result (or the "Unknown error" result) is returned to run, which
\* appends it, emits test.completed and goes to the next test
RunSingleLoop ==
  /\ r_pc = "single"
  /\ IF ~stop_retrying(r_last) /\ r_attempt < current.retry + 1
       THEN /\ r_pc' = "handler"
            /\ r_attempt' = r_attempt + 1
            /\ r_body' = "running"
            /\ r_failed' = (r_failed /\ (r_last = NoLast \/ r_last.status = "failed"))
            /\ UNCHANGED <<r_index, r_results, r_log, r_events>>
       ELSE /\ r_pc' = "loop"
            /\ r_results' = Append(r_results,
                                   IF r_last # NoLast THEN r_last
                                   ELSE TestResult(current.name, "error", r_serial, "Unknown error"))
            /\ r_events' = runner_emit(r_events, Event("test.completed",
                                                       [name |-> current.name,
                                                        status |-> r_results'[Len(r_results')].status]))
            /\ r_log' = Append(r_log, [attempted |-> r_attempt > 0,
                                       transport_error |-> r_body = "transport_error"])
            /\ r_index' = r_index + 1
            /\ UNCHANGED <<r_attempt, r_body, r_failed>>
  /\ UNCHANGED <<r_tests, r_serial, r_last, r_completed>>
  /\ UNCHANGED notRunnerVars

\* the handler ends as b and wait_for hands its value or exception on
Completes(b) ==
  LET result == attempt_result(current, r_serial, func(current, b)) IN
  /\ r_last' = result
  /\ r_body' = b.kind
  /\ r_pc' = "single"
  /\ UNCHANGED <<r_tests, r_serial, r_index, r_attempt, r_results, r_completed, r_failed,
                 r_log, r_events>>
  /\ UNCHANGED notRunnerVars

\* the handler ends within the timeout
HandlerEnds(b) ==
  /\ r_pc = "handler"
  /\ Completes(b)

\* the timeout of wait_for elapses: wait_for cancels the handler's task and
\* waits for it to end
WaitForTimeout ==
  /\ r_pc = "handler"
  /\ r_pc' = "cancelling"
  /\ UNCHANGED <<r_tests, r_serial, r_index, r_attempt, r_last, r_results, r_completed,
                 r_body, r_failed, r_log, r_events>>
  /\ UNCHANGED notRunnerVars

\* the cancelled handler ends with CancelledError: wait_for raises TimeoutError
HandlerCancelled ==
  /\ r_pc = "cancelling"
  /\ r_last' = timeout_result(current, r_serial)
  /\ r_body' = "cancelled"
  /\ r_pc' = "single"
  /\ UNCHANGED <<r_tests, r_serial, r_index, r_attempt, r_results, r_completed, r_failed,
                 r_log, r_events>>
  /\ UNCHANGED notRunnerVars

\* the cancelled handler catches CancelledError and ends as b: wait_for hands
\* on what the task ended with ("return fut.result()"), not TimeoutError
HandlerEndsAfterCancel(b) ==
  /\ r_pc = "cancelling"
  /\ Completes(b)

\* ======================================================== ParallelExecutor
\* the task that calls execute is the manager's first caller
ExecCaller == CHOOSE c \in Callers : \A d \in Callers : c <= d

\* lists of TestCaseInfo with distinct names, no priority and no requirement
ExecTestLists ==
  {[i \in 1..n |-> [name |-> i, priority |-> 0, devices |-> {}]] : n \in 0..MaxExecTests}

\* the strategies execute is called with
ExecStrategies == {"round_robin", "duplicate"}

\* the statuses of the results a TestRunner.run call returns
ResultStatuses == {"passed", "failed", "error"}

\* "error: str | None = None" (here "")
NoError == ""

\* ExecutionResult(results=..., device_count=..., error=...)
ExecutionResult(results, device_count, error) ==
  [kind |-> "result", results |-> results, device_count |-> device_count, error |-> error]

\* the call has not returned
NoReturn == [kind |-> "none", results |-> <<>>, device_count |-> 0, error |-> NoError]

\* the call ended with CancelledError
CancelledReturn == [NoReturn EXCEPT !.kind = "cancelled"]

\* ExecutionResult.failed
failed(r) == count(r.results, "failed")

\* ExecutionResult.is_success
ExecutionResult_is_success(r) == failed(r) = 0 /\ r.error = NoError

\* c.serial of the client that connect_all returned as block k
serial_of(f, k) ==
  f.log[CHOOSE j \in 1..Len(f.log) : f.log[j].ok /\ f.log[j].client = k].serial

\* "device_serials = [c.serial for c in clients]"
device_serials_of(f) == [j \in 1..Len(f.res.list) |-> serial_of(f, f.res.list[j])]

\* "for serial, test_list in plan.assignments.items()": the serials that have
\* tests and a client in the pool, in the order of the plan
tasks_of(p, device_serials) ==
  SelectSeq(device_serials,
            LAMBDA d : /\ d \in DOMAIN p.assignments
                       /\ p.assignments[d] # <<>>
                       /\ clients[d] # NoClient)

\* what runner.run returns: one result per test, stamped with the serial
run_results(tests, serial, statuses) ==
  [j \in 1..Len(tests) |-> TestResult(tests[j].name, statuses[j], serial, "")]

\* (mutant) a failing worker returns nothing
worker_error_Dropped(tests, serial) == <<>>

\* "except Exception as e: return [TestResult(... ERROR ...) for t in tests]"
worker_error(tests, serial) ==
  [j \in 1..Len(tests) |-> TestResult(tests[j].name, "error", serial, "Worker error: e")]

\* (mutant) "self._results = result": each list replaces the ones before it
extend_all_Last(tasks, returned) ==
  IF tasks = <<>> THEN <<>> ELSE returned[tasks[Len(tasks)]]

\* "for result in all_results: if isinstance(result, list): self._results.extend(result)"
RECURSIVE extend_all(_, _)
extend_all(tasks, returned) ==
  IF tasks = <<>> THEN <<>>
  ELSE returned[Head(tasks)] \o extend_all(Tail(tasks), returned)

\* the serials of tasks
TaskSet == {e_tasks[j] : j \in 1..Len(e_tasks)}

\* (mutant) the semaphore counts no holder: "async with semaphore" never waits
Holding_None == {}

\* workers that hold the semaphore
Holding == {s \in TaskSet : w_pc[s] = "running"}

\* no execute call has been made
InitExecutor ==
  /\ e_pc = "idle"
  /\ e_tests = <<>>
  /\ e_strategy = "round_robin"
  /\ e_max_workers = 1
  /\ e_device_serials = <<>>
  /\ e_plan = ExecutionPlan(<<>>, <<>>)
  /\ e_tasks = <<>>
  /\ e_results = <<>>
  /\ e_return = NoReturn
  /\ e_events = <<>>
  /\ w_pc = [s \in Serials |-> "none"]
  /\ w_run = [s \in Serials |-> "none"]
  /\ w_results = [s \in Serials |-> <<>>]

\* execute(tests, strategy) up to its first await: "self._results = []" and
\* "clients = await self.device_manager.connect_all()", whatever tests holds
Execute(tests, strategy, max_workers, listed) ==
  /\ e_pc = "idle"
  /\ call[ExecCaller].pc = "idle"
  /\ e_pc' = "connect_all"
  /\ e_tests' = tests
  /\ e_strategy' = strategy
  /\ e_max_workers' = max_workers
  /\ e_results' = <<>>
  /\ EnterConnectAll(ExecCaller, listed)
  /\ UNCHANGED <<e_device_serials, e_plan, e_tasks, e_return, e_events, w_pc, w_run, w_results>>
  /\ UNCHANGED <<clients, port_map, next_local_port, forwards, clientState>>
  /\ UNCHANGED notExecManagerVars

\* connect_all has returned. Without clients execute returns the "No devices
\* available" result. With clients it plans, emits execution.started and
\* creates one worker for each serial of the plan that has tests and a client.
ExecConnected ==
  LET f == call[ExecCaller]
      serials == device_serials_of(f)
      p == plan(e_tests, serials, e_strategy)
      tasks == tasks_of(p, serials) IN
  /\ e_pc = "connect_all"
  /\ f.pc = "done"
  /\ call' = [call EXCEPT ![ExecCaller] = IdleFrame]
  /\ IF f.res.list = <<>>
       THEN /\ e_pc' = "done"
            /\ e_return' = ExecutionResult(<<>>, 0, "No devices available")
            /\ UNCHANGED <<e_device_serials, e_plan, e_tasks, e_events, w_pc>>
       ELSE /\ e_pc' = "gather"
            /\ e_device_serials' = serials
            /\ e_plan' = p
            /\ e_tasks' = tasks
            /\ e_events' = Append(e_events, "execution.started")
            /\ w_pc' = [s \in Serials |->
                          IF \E j \in 1..Len(tasks) : tasks[j] = s THEN "waiting" ELSE "none"]
            /\ UNCHANGED e_return
  /\ UNCHANGED <<e_tests, e_strategy, e_max_workers, e_results, w_run, w_results>>
  /\ UNCHANGED <<clients, port_map, next_local_port, forwards, clientState>>
  /\ UNCHANGED notExecManagerVars

\* "async with semaphore": the worker that has waited longest enters when
\* fewer than max_workers workers are inside
WorkerAcquire(s) ==
  /\ e_pc = "gather"
  /\ w_pc[s] = "waiting"
  /\ \A j \in 1..Len(e_tasks) :
       e_tasks[j] = s => \A m \in 1..(j - 1) : w_pc[e_tasks[m]] # "waiting"
  /\ Cardinality(Holding) < e_max_workers
  /\ w_pc' = [w_pc EXCEPT ![s] = "running"]
  /\ UNCHANGED <<e_pc, e_tests, e_strategy, e_max_workers, e_device_serials, e_plan,
                 e_tasks, e_results, e_return, e_events, w_run, w_results>>
  /\ UNCHANGED notExecutorVars

\* "results = await runner.run(tests, client)" returns: "return results"
WorkerRunReturns(s, statuses) ==
  /\ e_pc = "gather"
  /\ w_pc[s] = "running"
  /\ DOMAIN statuses = 1..Len(e_plan.assignments[s])
  /\ w_pc' = [w_pc EXCEPT ![s] = "returned"]
  /\ w_run' = [w_run EXCEPT ![s] = "returned"]
  /\ w_results' = [w_results EXCEPT ![s] = run_results(e_plan.assignments[s], s, statuses)]
  /\ UNCHANGED <<e_pc, e_tests, e_strategy, e_max_workers, e_device_serials, e_plan,
                 e_tasks, e_results, e_return, e_events>>
  /\ UNCHANGED notExecutorVars

\* runner.run raises an Exception: the worker returns an error result for
\* every test of its list
WorkerRunRaises(s) ==
  /\ e_pc = "gather"
  /\ w_pc[s] = "running"
  /\ w_pc' = [w_pc EXCEPT ![s] = "returned"]
  /\ w_run' = [w_run EXCEPT ![s] = "raised"]
  /\ w_results' = [w_results EXCEPT ![s] = worker_error(e_plan.assignments[s], s)]
  /\ UNCHANGED <<e_pc, e_tests, e_strategy, e_max_workers, e_device_serials, e_plan,
                 e_tasks, e_results, e_return, e_events>>
  /\ UNCHANGED notExecutorVars

\* gather has every worker's list: the lists are put together in the order of
\* the tasks, execution.completed is emitted and the ExecutionResult returned
ExecGathered ==
  /\ e_pc = "gather"
  /\ \A s \in TaskSet : w_pc[s] = "returned"
  /\ e_pc' = "done"
  /\ e_results' = extend_all(e_tasks, w_results)
  /\ e_events' = Append(e_events, "execution.completed")
  /\ e_return' = ExecutionResult(extend_all(e_tasks, w_results), Len(e_device_serials), NoError)
  /\ UNCHANGED <<e_tests, e_strategy, e_max_workers, e_device_serials, e_plan, e_tasks,
                 w_pc, w_run, w_results>>
  /\ UNCHANGED notExecutorVars

\* The task that awaits execute is cancelled while execute awaits gather:
\* gather cancels every worker that has not finished. A worker waiting for the
\* semaphore ends at once; one inside runner.run ends in WorkerCancelled.
ExecCancel ==
  /\ e_pc = "gather"
  /\ \E s \in TaskSet : w_pc[s] # "returned"
  /\ e_pc' = "cancelling"
  /\ w_pc' = [s \in Serials |-> IF w_pc[s] = "waiting" THEN "cancelled" ELSE w_pc[s]]
  /\ UNCHANGED <<e_tests, e_strategy, e_max_workers, e_device_serials, e_plan, e_tasks,
                 e_results, e_return, e_events, w_run, w_results>>
  /\ UNCHANGED notExecManagerVars
  /\ UNCHANGED managerVars

\* CancelledError is raised inside runner.run: neither the runner nor
\* "except Exception" of the worker catches it, the worker returns no list
WorkerCancelled(s) ==
  /\ e_pc = "cancelling"
  /\ w_pc[s] = "running"
  /\ w_pc' = [w_pc EXCEPT ![s] = "cancelled"]
  /\ w_run' = [w_run EXCEPT ![s] = "cancelled"]
  /\ UNCHANGED <<e_pc, e_tests, e_strategy, e_max_workers, e_device_serials, e_plan,
                 e_tasks, e_results, e_return, e_events, w_results>>
  /\ UNCHANGED notExecutorVars

\* every worker has ended after the cancellation: "await asyncio.gather(...)"
\* raises CancelledError, which execute does not catch
ExecCancelled ==
  /\ e_pc = "cancelling"
  /\ \A s \in TaskSet : w_pc[s] \in {"returned", "cancelled"}
  /\ e_pc' = "cancelled"
  /\ e_return' = CancelledReturn
  /\ UNCHANGED <<e_tests, e_strategy, e_max_workers, e_device_serials, e_plan, e_tasks,
                 e_results, e_events, w_pc, w_run, w_results>>
  /\ UNCHANGED notExecutorVars

\* ================================================================ EventBus
\* the event types emitted
EventTypes == {"run.started", "test.completed"}

\* the handlers that are subscribed
BusHandlers == {"h1", "h2"}

\* no emit call has been made
NoEmit == [pc |-> "idle", type |-> "", handlers |-> <<>>, tasks |-> <<>>, changed |-> FALSE]

\* how often h is in the list q
occurrences(q, h) == Cardinality({j \in 1..Len(q) : q[j] = h})

\* "list.remove(handler)": the first h is taken out of q
remove(q, h) ==
  LET j == CHOOSE m \in 1..Len(q) : q[m] = h /\ \A n \in 1..(m - 1) : q[n] # h IN
  SubSeq(q, 1, j - 1) \o SubSeq(q, j + 1, Len(q))

\* the subscriptions the bus holds
subscriptions ==
  Len(b_wildcard) + Len(b_handlers["run.started"]) + Len(b_handlers["test.completed"])

\* (mutant) the wildcard handlers are left out
selected_TypedOnly(type) == b_handlers[type]

\* "handlers = list(self._handlers.get(event.type, []))" and
\* "handlers.extend(self._wildcard_handlers)"
selected(type) == b_handlers[type] \o b_wildcard

\* the emit call under way is marked when the lists change
marked == IF b_emit.pc = "running" THEN [b_emit EXCEPT !.changed = TRUE] ELSE b_emit

InitBus ==
  /\ b_handlers = [t \in EventTypes |-> <<>>]
  /\ b_wildcard = <<>>
  /\ b_emit = NoEmit
  /\ b_nemit = 0
  /\ b_at_start = [typed |-> <<>>, wildcard |-> <<>>]
  /\ b_calls = [h \in BusHandlers |-> 0]
  /\ b_overlap = FALSE

\* on(event_type, handler)
On(type, h) ==
  /\ subscriptions < MaxSubs
  /\ b_handlers' = [b_handlers EXCEPT ![type] = Append(@, h)]
  /\ b_emit' = marked
  /\ UNCHANGED <<b_wildcard, b_nemit, b_at_start, b_calls, b_overlap>>
  /\ UNCHANGED notBusVars

\* on_all(handler)
OnAll(h) ==
  /\ subscriptions < MaxSubs
  /\ b_wildcard' = Append(b_wildcard, h)
  /\ b_emit' = marked
  /\ UNCHANGED <<b_handlers, b_nemit, b_at_start, b_calls, b_overlap>>
  /\ UNCHANGED notBusVars

\* the function on() returned is called
Off(type, h) ==
  /\ occurrences(b_handlers[type], h) > 0
  /\ b_handlers' = [b_handlers EXCEPT ![type] = remove(@, h)]
  /\ b_emit' = marked
  /\ UNCHANGED <<b_wildcard, b_nemit, b_at_start, b_calls, b_overlap>>
  /\ UNCHANGED notBusVars

\* the function on_all() returned is called
OffAll(h) ==
  /\ occurrences(b_wildcard, h) > 0
  /\ b_wildcard' = remove(b_wildcard, h)
  /\ b_emit' = marked
  /\ UNCHANGED <<b_handlers, b_nemit, b_at_start, b_calls, b_overlap>>
  /\ UNCHANGED notBusVars

\* clear(event_type)
ClearType(type) ==
  /\ b_handlers[type] # <<>>
  /\ b_handlers' = [b_handlers EXCEPT ![type] = <<>>]
  /\ b_emit' = marked
  /\ UNCHANGED <<b_wildcard, b_nemit, b_at_start, b_calls, b_overlap>>
  /\ UNCHANGED notBusVars

\* clear()
Clear ==
  /\ b_wildcard # <<>> \/ \E t \in EventTypes : b_handlers[t] # <<>>
  /\ b_handlers' = [t \in EventTypes |-> <<>>]
  /\ b_wildcard' = <<>>
  /\ b_emit' = marked
  /\ UNCHANGED <<b_nemit, b_at_start, b_calls, b_overlap>>
  /\ UNCHANGED notBusVars

\* emit(event) up to its await, no other emit call being under way: the
\* handlers are copied, one _safe_call is made for each; without handlers
\* emit returns at once
EmitBegin(type) ==
  /\ b_emit.pc # "running"
  /\ b_nemit < MaxEmits
  /\ b_nemit' = b_nemit + 1
  /\ b_emit' = [pc |-> IF selected(type) = <<>> THEN "returned" ELSE "running",
                type |-> type,
                handlers |-> selected(type),
                tasks |-> [j \in 1..Len(selected(type)) |-> "pending"],
                changed |-> FALSE]
  /\ b_at_start' = [typed |-> b_handlers[type], wildcard |-> b_wildcard]
  /\ b_calls' = [h \in BusHandlers |-> 0]
  /\ b_overlap' = FALSE
  /\ UNCHANGED <<b_handlers, b_wildcard>>
  /\ UNCHANGED notBusVars

\* the task of the j-th _safe_call starts: "await handler(event)". The tasks
\* gather made start in the order they were made in, none waiting for another
\* to finish.
SafeCallStart(j) ==
  /\ b_emit.pc = "running"
  /\ j \in 1..Len(b_emit.tasks)
  /\ b_emit.tasks[j] = "pending"
  /\ \A m \in 1..(j - 1) : b_emit.tasks[m] # "pending"
  /\ b_emit' = [b_emit EXCEPT !.tasks[j] = "running"]
  /\ b_calls' = [b_calls EXCEPT ![b_emit.handlers[j]] = @ + 1]
  /\ b_overlap' = (b_overlap \/ \E m \in 1..Len(b_emit.tasks) : b_emit.tasks[m] = "running")
  /\ UNCHANGED <<b_handlers, b_wildcard, b_nemit, b_at_start>>
  /\ UNCHANGED notBusVars

\* the handler of the j-th _safe_call returns, or raises an Exception that
\* "except Exception: pass" swallows: the task is done either way
SafeCallEnd(j, raised) ==
  /\ b_emit.pc = "running"
  /\ j \in 1..Len(b_emit.tasks)
  /\ b_emit.tasks[j] = "running"
  /\ b_emit' = [b_emit EXCEPT !.tasks[j] = IF raised THEN "swallowed" ELSE "returned"]
  /\ UNCHANGED <<b_handlers, b_wildcard, b_nemit, b_at_start, b_calls, b_overlap>>
  /\ UNCHANGED notBusVars

\* (mutant) emit does not wait for the handlers it started
finished_Started(task) == task # "pending"

\* a _safe_call task is done: its handler returned or its exception was swallowed
finished(task) == task \in {"returned", "swallowed"}

\* "await asyncio.gather(*tasks, return_exceptions=True)" is over when every
\* task is done: emit returns None
EmitReturn ==
  /\ b_emit.pc = "running"
  /\ \A j \in 1..Len(b_emit.tasks) : finished(b_emit.tasks[j])
  /\ b_emit' = [b_emit EXCEPT !.pc = "returned"]
  /\ UNCHANGED <<b_handlers, b_wildcard, b_nemit, b_at_start, b_calls, b_overlap>>
  /\ UNCHANGED notBusVars

\* ===================================================== _listen_events
\* the handlers registered through on_event
Listeners == {"h1", "h2"}

Frames == 1..MaxFrames

\* the handlers in the list q
members(q) == {q[j] : j \in 1..Len(q)}

InitListener ==
  /\ l_handlers = <<>>
  /\ l_pc = "waiting"
  /\ l_msg = 0
  /\ l_iter = 0
  /\ l_got = [n \in Frames |-> <<>>]
  /\ l_stayed = {}

\* on_event(handler): "self._event_handlers.append(handler)", called from a
\* handler or from another task
ListenerOn(h) ==
  /\ Len(l_handlers) < MaxListeners
  /\ l_handlers' = Append(l_handlers, h)
  /\ UNCHANGED <<l_pc, l_msg, l_iter, l_got, l_stayed>>
  /\ UNCHANGED notListenerVars

\* the function on_event returned: "self._event_handlers.remove(handler)",
\* called from a handler (on itself or on another) or from another task
ListenerOff(h) ==
  /\ occurrences(l_handlers, h) > 0
  /\ l_handlers' = remove(l_handlers, h)
  /\ l_stayed' = l_stayed \cap members(remove(l_handlers, h))
  /\ UNCHANGED <<l_pc, l_msg, l_iter, l_got>>
  /\ UNCHANGED notListenerVars

\* "async for raw in self._event_ws" yields a frame that from_json decodes:
\* the for loop over the list starts
ListenerReceive ==
  /\ l_pc = "waiting"
  /\ l_msg < MaxFrames
  /\ l_msg' = l_msg + 1
  /\ l_iter' = 0
  /\ l_pc' = "dispatch"
  /\ l_stayed' = members(l_handlers)
  /\ UNCHANGED <<l_handlers, l_got>>
  /\ UNCHANGED notListenerVars

\* the frame is not JSON: from_json raises outside the try of the loop body
\* and the reader task ends with the exception
ListenerUndecodable ==
  /\ l_pc = "waiting"
  /\ l_msg < MaxFrames
  /\ l_msg' = l_msg + 1
  /\ l_pc' = "ended"
  /\ l_stayed' = {}
  /\ UNCHANGED <<l_handlers, l_iter, l_got>>
  /\ UNCHANGED notListenerVars

\* "for handler in self._event_handlers": the iterator yields the element at
\* its index in the list as it is now and "await handler(msg)" begins, or the
\* index has reached the end of the list and the next frame is awaited
ListenerNext ==
  /\ l_pc = "dispatch"
  /\ IF l_iter < Len(l_handlers)
       THEN /\ l_got' = [l_got EXCEPT ![l_msg] = Append(@, l_handlers[l_iter + 1])]
            /\ l_iter' = l_iter + 1
            /\ l_pc' = "awaiting"
       ELSE /\ l_pc' = "waiting"
            /\ UNCHANGED <<l_got, l_iter>>
  /\ UNCHANGED <<l_handlers, l_msg, l_stayed>>
  /\ UNCHANGED notListenerVars

\* the awaited handler returns, or raises an Exception that
\* "except Exception: pass" swallows: the loop goes on
ListenerHandlerEnds(raised) ==
  /\ l_pc = "awaiting"
  /\ l_pc' = "dispatch"
  /\ UNCHANGED <<l_handlers, l_msg, l_iter, l_got, l_stayed>>
  /\ UNCHANGED notListenerVars

\* the event socket is closed: ConnectionClosed ends the reader
ListenerClosed ==
  /\ l_pc = "waiting"
  /\ l_pc' = "ended"
  /\ UNCHANGED <<l_handlers, l_msg, l_iter, l_got, l_stayed>>
  /\ UNCHANGED notListenerVars

\* ============================================================ the run command
\* the process has not exited
NoExit == -1

\* the command function returned: typer ends the process with code 0
ExitReturned == 0

\* an exception left the command function: the process ends with code 1
ExitRaised == 1

\* the statuses the results of a run carry
CliStatuses == {"passed", "failed", "error", "skipped"}

\* len(all_results): the executor runs every test once, the loop over the
\* clients runs every test on every client
expected_results(ntests, nclients, parallel) ==
  IF parallel /\ nclients > 1 THEN ntests ELSE ntests * nclients

InitCli ==
  /\ c_pc = "idle"
  /\ c_tests = 0
  /\ c_device = FALSE
  /\ c_parallel = FALSE
  /\ c_clients = 0
  /\ c_all_results = <<>>
  /\ c_exit = NoExit

\* run(paths, tags, device, parallel) up to the connection: the tests are
\* discovered and filtered; "if not tests: ... return" ends the command
CliRun(tests, device, parallel) ==
  /\ c_pc = "idle"
  /\ c_tests' = tests
  /\ c_device' = device
  /\ c_parallel' = parallel
  /\ IF tests = 0
       THEN c_pc' = "done" /\ c_exit' = ExitReturned
       ELSE c_pc' = "connecting" /\ UNCHANGED c_exit
  /\ UNCHANGED <<c_clients, c_all_results>>
  /\ UNCHANGED notCliVars

\* manager.connect(device) or manager.connect_all() returned n clients (one
\* for connect); "if not clients: ... return" ends the command
CliConnected(n) ==
  /\ c_pc = "connecting"
  /\ c_device => n = 1
  /\ c_clients' = n
  /\ IF n = 0
       THEN c_pc' = "done" /\ c_exit' = ExitReturned
       ELSE c_pc' = "running" /\ UNCHANGED c_exit
  /\ UNCHANGED <<c_tests, c_device, c_parallel, c_all_results>>
  /\ UNCHANGED notCliVars

\* manager.connect(device) raised DeviceOfflineError or ConnectionError: the
\* exception leaves _run and asyncio.run
CliConnectRaises ==
  /\ c_pc = "connecting"
  /\ c_device
  /\ c_pc' = "done"
  /\ c_exit' = ExitRaised
  /\ UNCHANGED <<c_tests, c_device, c_parallel, c_clients, c_all_results>>
  /\ UNCHANGED notCliVars

\* the tests have run: the table and the "passed/total" line are printed, the
\* reports are generated and the command returns
CliFinished(statuses) ==
  /\ c_pc = "running"
  /\ DOMAIN statuses = 1..expected_results(c_tests, c_clients, c_parallel)
  /\ c_all_results' = statuses
  /\ c_pc' = "done"
  /\ c_exit' = ExitReturned
  /\ UNCHANGED <<c_tests, c_device, c_parallel, c_clients>>
  /\ UNCHANGED notCliVars

\* =================================================================== codec
\* A field value is a sequence: <<>> is None (null in a frame), <<v>> is v.
None == <<>>

\* the fields of the dataclass
Fields == {"id", "type", "method", "params", "result", "error", "metadata", "timestamp"}

\* "int(time.time() * 1000)" when the Message is built
Now == <<"now">>

\* "timestamp: int = 0"
Unset == <<"0">>

\* "str(uuid.uuid4())": an id no request carries
FreshId == <<"fresh">>

\* the ids of the requests
MessageIds == {<<"a">>, <<"b">>}

\* the Messages built from the defined fields
Messages ==
  [id : MessageIds,
   type : {<<"request">>, <<"response">>, <<"event">>},
   method : {None, <<"ui.click">>},
   params : {None, <<[x |-> 1]>>},
   result : {None, <<"done">>},
   error : {None, <<[code |-> 404, message |-> "not found"]>>},
   metadata : {None, <<[timeout |-> 1000]>>},
   timestamp : {Now}]

\* the object f without the key k
without(f, k) == [j \in DOMAIN f \ {k} |-> f[j]]

\* the object f with the key k set to v
with(f, k, v) == [j \in DOMAIN f \cup {k} |-> IF j = k THEN v ELSE f[j]]

\* (mutant) every field is written, None as null
to_json_Nulls(m) == [k \in Fields |-> m[k]]

\* to_json: "data = {k: v for k, v in asdict(self).items() if v is not None}"
to_json(m) == [k \in {f \in Fields : m[f] # None} |-> m[k]]

\* the defaults of the dataclass fields
default(f) ==
  CASE f = "id" -> FreshId
    [] f = "type" -> <<"request">>
    [] f = "timestamp" -> Unset
    [] OTHER -> None

\* __post_init__: "if self.timestamp == 0: self.timestamp = int(time.time() * 1000)"
post_init(m) == IF m.timestamp = Unset THEN [m EXCEPT !.timestamp = Now] ELSE m

\* from_json of a JSON object:
\* "cls(**{k: v for k, v in data.items() if k in cls.__dataclass_fields__})"
from_object(obj) ==
  post_init([f \in Fields |-> IF f \in DOMAIN obj THEN obj[f] ELSE default(f)])

\* nothing was decoded
NoDecoded == [raised |-> FALSE, msg |-> <<>>]

\* from_json(text): json.loads raises on text that is not JSON
from_json(frame) ==
  IF frame.text = "json"
    THEN [raised |-> FALSE, msg |-> from_object(frame.obj)]
    ELSE [raised |-> TRUE, msg |-> <<>>]

\* the text of a JSON object
json(obj) == [text |-> "json", obj |-> obj]

NoFrame == [text |-> "", obj |-> <<>>]

\* What the agent can write on the control socket: the frame of a Message,
\* the same without its id, without its type, without its timestamp, with a
\* key the dataclass does not have, with method written as null; and text
\* that is not JSON.
AgentFrames ==
  UNION {{json(to_json(m)),
          json(without(to_json(m), "id")),
          json(without(to_json(m), "type")),
          json(without(to_json(m), "timestamp")),
          json(with(to_json(m), "extra", <<"x">>)),
          json(with(to_json(m), "method", None))} : m \in Messages}
  \cup {[text |-> "garbage", obj |-> <<>>]}

\* What the agent writes after its first frame: the response to a request,
\* successful or not, and text that is not JSON.
LaterFrames ==
  {json(to_json(m)) : m \in {x \in Messages : /\ x.type = <<"response">>
                                              /\ x.method = None
                                              /\ x.params = None
                                              /\ x.metadata = None
                                              /\ (x.result = None) # (x.error = None)}}
  \cup {[text |-> "garbage", obj |-> <<>>]}

\* one request is pending, nothing has been encoded or read
InitCodec ==
  /\ k_pc = "idle"
  /\ k_msg = <<>>
  /\ k_frame = NoFrame
  /\ k_decoded = NoDecoded
  /\ k_pending = {<<"a">>}
  /\ k_resolved = {}
  /\ k_reader = "running"
  /\ k_arrived = <<>>

\* m.to_json()
Encode(m) ==
  /\ k_pc = "idle"
  /\ k_msg' = m
  /\ k_frame' = json(to_json(m))
  /\ k_pc' = "encoded"
  /\ UNCHANGED <<k_decoded, k_pending, k_resolved, k_reader, k_arrived>>
  /\ UNCHANGED notCodecVars

\* Message.from_json of the frame that was encoded
Decode ==
  /\ k_pc = "encoded"
  /\ k_decoded' = from_json(k_frame)
  /\ k_pc' = "decoded"
  /\ UNCHANGED <<k_msg, k_frame, k_pending, k_resolved, k_reader, k_arrived>>
  /\ UNCHANGED notCodecVars

\* the reader task after an iteration: only ConnectionClosed is caught around
\* the loop, so an exception of from_json leaves the task, which ends
reader_after(d) == IF d.raised THEN "failed" ELSE "running"

\* The agent writes a frame to the control socket. While the task of
\* _listen_control runs, one iteration reads it:
\* "msg = Message.from_json(str(raw))", then
\* "if msg.type == "response": future = self._pending.pop(msg.id, None)" and
\* the future is resolved; an exception of from_json ends the task. Once the
\* task has ended nothing reads the frame.
ControlRead(frame) ==
  LET d == from_json(frame)
      hit == /\ ~d.raised
             /\ d.msg.type = <<"response">>
             /\ d.msg.id \in k_pending IN
  /\ k_pc \in {"idle", "read"}
  /\ Len(k_arrived) < MaxFrames
  /\ k_arrived' = Append(k_arrived, frame)
  /\ k_pc' = "read"
  /\ IF k_reader = "running"
       THEN /\ k_frame' = frame
            /\ k_decoded' = d
            /\ k_pending' = IF hit THEN k_pending \ {d.msg.id} ELSE k_pending
            /\ k_resolved' = IF hit THEN {d.msg.id} ELSE {}
            /\ k_reader' = reader_after(d)
       ELSE UNCHANGED <<k_frame, k_decoded, k_pending, k_resolved, k_reader>>
  /\ UNCHANGED k_msg
  /\ UNCHANGED notCodecVars

\* the first frame the agent writes
ControlReadFirst(frame) ==
  /\ k_arrived = <<>>
  /\ ControlRead(frame)

\* a frame the agent writes after another
ControlReadLater(frame) ==
  /\ k_arrived # <<>>
  /\ ControlRead(frame)

\* ================================================================ ocr_click
\* Rect(left, top, right, bottom): the bounds OCR reports
Rects ==
  {[left |-> 0, top |-> 0, right |-> 10, bottom |-> 4],
   [left |-> 3, top |-> 10, right |-> 8, bottom |-> 21]}

\* the lists find_text can return
MatchLists == UNION {[1..n -> Rects] : n \in 0..MaxMatches}

\* (mutant) the click goes to the left edge
center_x_Left(r) == r.left

\* Rect.center_x: "(self.left + self.right) // 2"
center_x(r) == (r.left + r.right) \div 2

\* Rect.center_y: "(self.top + self.bottom) // 2"
center_y(r) == (r.top + r.bottom) \div 2

\* the request of screenshot()
ScreenshotRequest == [method |-> "device.screenshot", x |-> 0, y |-> 0]

\* "self._client.send("ui.click", {"x": click_x, "y": click_y})"
ClickRequest(x, y) == [method |-> "ui.click", x |-> x, y |-> y]

\* the call has neither returned nor raised
NoOcrResult == [kind |-> "none", bounds |-> <<>>, click_x |-> 0, click_y |-> 0]

\* OcrClickResult(bounds=target.bounds, click_x=click_x, click_y=click_y, ...)
OcrClickResult(target, x, y) ==
  [kind |-> "returned", bounds |-> <<target>>, click_x |-> x, click_y |-> y]

\* the exception that ended the call
OcrRaised(kind) == [NoOcrResult EXCEPT !.kind = kind]

InitOcr ==
  /\ o_pc = "idle"
  /\ o_index = 0
  /\ o_time = 0
  /\ o_deadline = 0
  /\ o_wake = 0
  /\ o_matches = <<>>
  /\ o_sent = <<>>
  /\ o_result = NoOcrResult

\* ocr_click(text, index, timeout=timeout) up to its first await:
\* "deadline = ... time() + timeout", then "screenshot = await self.screenshot()"
OcrClick(index, timeout) ==
  /\ o_pc = "idle"
  /\ o_index' = index
  /\ o_deadline' = o_time + timeout
  /\ o_sent' = Append(o_sent, ScreenshotRequest)
  /\ o_pc' = "screenshot"
  /\ UNCHANGED <<o_time, o_wake, o_matches, o_result>>
  /\ UNCHANGED notOcrVars

\* time passes while the call awaits the screenshot, the OCR, the click or
\* the sleep
OcrTick ==
  /\ o_pc \in {"screenshot", "find_text", "click", "sleep"}
  /\ o_time < MaxOcrTime
  /\ o_time' = o_time + 1
  /\ UNCHANGED <<o_pc, o_index, o_deadline, o_wake, o_matches, o_sent, o_result>>
  /\ UNCHANGED notOcrVars

\* the screenshot arrives: "matches = await self._ocr.find_text(...)" begins
OcrScreenshotDone ==
  /\ o_pc = "screenshot"
  /\ o_pc' = "find_text"
  /\ UNCHANGED <<o_index, o_time, o_deadline, o_wake, o_matches, o_sent, o_result>>
  /\ UNCHANGED notOcrVars

\* send raises (not connected, timeout, connection closed) in screenshot() or
\* in the click: the exception leaves ocr_click
OcrSendRaises ==
  /\ o_pc \in {"screenshot", "click"}
  /\ o_pc' = "raised"
  /\ o_result' = OcrRaised("transport")
  /\ UNCHANGED <<o_index, o_time, o_deadline, o_wake, o_matches, o_sent>>
  /\ UNCHANGED notOcrVars

\* find_text returns matches. With a match at index the click is sent at the
\* centre of its bounds; else ElementNotFoundError is raised if the deadline
\* has passed; else the call sleeps for one poll interval.
OcrFindTextDone(matches) ==
  /\ o_pc = "find_text"
  /\ o_matches' = matches
  /\ IF matches # <<>> /\ Len(matches) > o_index
       THEN /\ o_sent' = Append(o_sent, ClickRequest(center_x(matches[o_index + 1]),
                                                     center_y(matches[o_index + 1])))
            /\ o_pc' = "click"
            /\ UNCHANGED <<o_wake, o_result>>
       ELSE IF o_time >= o_deadline
         THEN /\ o_pc' = "raised"
              /\ o_result' = OcrRaised("element_not_found")
              /\ UNCHANGED <<o_wake, o_sent>>
         ELSE /\ o_pc' = "sleep"
              /\ o_wake' = o_time + 1
              /\ UNCHANGED <<o_sent, o_result>>
  /\ UNCHANGED <<o_index, o_time, o_deadline>>
  /\ UNCHANGED notOcrVars

\* "await asyncio.sleep(poll_interval)" is over: the loop takes the next
\* screenshot
OcrSleepDone ==
  /\ o_pc = "sleep"
  /\ o_time >= o_wake
  /\ o_sent' = Append(o_sent, ScreenshotRequest)
  /\ o_pc' = "screenshot"
  /\ UNCHANGED <<o_index, o_time, o_deadline, o_wake, o_matches, o_result>>
  /\ UNCHANGED notOcrVars

\* the response to ui.click arrives: the OcrClickResult is returned
OcrClickDone ==
  LET target == o_matches[o_index + 1] IN
  /\ o_pc = "click"
  /\ o_pc' = "returned"
  /\ o_result' = OcrClickResult(target, center_x(target), center_y(target))
  /\ UNCHANGED <<o_index, o_time, o_deadline, o_wake, o_matches, o_sent>>
  /\ UNCHANGED notOcrVars

\* =================================================== EventBus, concurrent emits
\* the tasks that emit on the bus: the device workers of one execution
Emitters == 1..MaxWorkers

\* (mutant) the loop starts the task scheduled last first
call_soon_Front(ready, tasks) == tasks \o ready

\* asyncio.gather wraps each coroutine in a task (ensure_future), and the
\* loop schedules the first step of each task with call_soon: behind the
\* callbacks already scheduled, in the order the tasks were made
call_soon(ready, tasks) == ready \o tasks

\* "tasks = [self._safe_call(handler, event) for handler in handlers]" for
\* emit call n
safe_calls(n, event) ==
  [j \in 1..Len(selected(event.type)) |->
     [emit |-> n, event |-> event, handler |-> selected(event.type)[j]]]

\* every _safe_call task of emit call n is done
gathered(n) ==
  /\ \A j \in 1..Len(q_ready) : q_ready[j].emit # n
  /\ q_running[n] = 0

InitConc ==
  /\ q_ready = <<>>
  /\ q_running = [n \in 1..MaxEmits |-> 0]
  /\ q_log = <<>>
  /\ q_await = [w \in Emitters |-> 0]
  /\ q_nemit = 0

\* task w calls emit(event) while other emit calls may be under way: the
\* handlers are copied and the _safe_call tasks handed to the loop, without
\* an await in between; without handlers the call returns at once
ConcEmit(w, type) ==
  LET n == q_nemit + 1
      event == [type |-> type, seq |-> n] IN
  /\ q_await[w] = 0
  /\ q_nemit < MaxEmits
  /\ q_nemit' = n
  /\ q_ready' = call_soon(q_ready, safe_calls(n, event))
  /\ q_await' = [q_await EXCEPT ![w] = IF selected(type) = <<>> THEN 0 ELSE n]
  /\ UNCHANGED <<q_running, q_log>>
  /\ UNCHANGED notConcVars

\* the loop runs the first step of the task at the head of its queue:
\* "await handler(event)" invokes the handler, which goes on to await
ConcSafeCallStart ==
  /\ q_ready # <<>>
  /\ q_ready' = Tail(q_ready)
  /\ q_running' = [q_running EXCEPT ![Head(q_ready).emit] = @ + 1]
  /\ q_log' = Append(q_log, [emit |-> Head(q_ready).emit, handler |-> Head(q_ready).handler,
                             event |-> Head(q_ready).event])
  /\ UNCHANGED <<q_await, q_nemit>>
  /\ UNCHANGED notConcVars

\* a handler invoked for emit call n returns or raises: its _safe_call task
\* is done
ConcSafeCallEnd(n) ==
  /\ q_running[n] > 0
  /\ q_running' = [q_running EXCEPT ![n] = @ - 1]
  /\ UNCHANGED <<q_ready, q_log, q_await, q_nemit>>
  /\ UNCHANGED notConcVars

\* gather is over for the emit call task w awaits: emit returns
ConcEmitReturn(w) ==
  /\ q_await[w] # 0
  /\ gathered(q_await[w])
  /\ q_await' = [q_await EXCEPT ![w] = 0]
  /\ UNCHANGED <<q_ready, q_running, q_log, q_nemit>>
  /\ UNCHANGED notConcVars

Init == InitClient /\ InitManager /\ InitPlanner /\ InitRunner /\ InitExecutor /\ InitBus /\ InitListener /\ InitCli /\ InitCodec /\ InitOcr /\ InitConc

\* ------------------------------------------------------------ SpecClient
\* The requests of one connection: connect() once, any number of send calls up
\* to MaxReq in any interleaving with the agent's replies, timeouts,
\* cancellations, the peer closing and disconnect().
NextClient ==
  \/ ConnectBegin(1)
  \/ ConnectControlOk
  \/ ConnectFail
  \/ ConnectEventOk
  \/ DisconnectBegin
  \/ DisconnectCloseEvent
  \/ DisconnectFinish
  \/ SendNotConnected
  \/ SendBegin
  \/ \E i \in ReqIds : SendComplete(i)
  \/ \E i \in ReqIds : TimeoutElapses(i)
  \/ \E i \in ReqIds : SendTimeout(i)
  \/ \E i \in ReqIds : SendCancelled(i)
  \/ \E n \in SockIds : ControlDeliver(n)
  \/ \E n \in SockIds, clean \in BOOLEAN : ControlReaderEnd(n, clean)
  \/ \E n \in SockIds, i \in ReqIds, ok \in BOOLEAN : AgentReply(n, i, ok)
  \/ \E n \in SockIds : PeerClose(n)

SpecClient == Init /\ [][NextClient]_vars

\* ----------------------------------------------------------- SpecConnect
\* The life of the connection: connect() and disconnect() called again and
\* again (up to MaxSockets socket pairs), the peer closing, the readers
\* ending, and the event channel.
NextConnect ==
  \/ ConnectBegin(MaxSockets)
  \/ ConnectControlOk
  \/ ConnectFail
  \/ ConnectEventOk
  \/ DisconnectBegin
  \/ DisconnectCloseEvent
  \/ DisconnectFinish
  \/ \E n \in SockIds, clean \in BOOLEAN : ControlReaderEnd(n, clean)
  \/ \E n \in SockIds : PeerClose(n)
  \/ OnEvent
  \/ Unsubscribe
  \/ \E n \in SockIds : EventDeliver(n)

SpecConnect == Init /\ [][NextConnect]_vars

\* ----------------------------------------------------------- SpecManager
\* The manager called by one task at a time: connect, connect_all and
\* disconnect in any order on any serial, adb and the agents failing at will.
NextManager ==
  \/ \E c \in Callers, s \in Serials : MgrConnect(c, s, 1)
  \/ \E c \in Callers, ok \in BOOLEAN : MgrForward(c, ok)
  \/ \E c \in Callers, ok \in BOOLEAN : MgrClientConnect(c, ok)
  \/ \E c \in Callers, listed \in DeviceLists : MgrConnectAll(c, listed, 1)
  \/ \E c \in Callers : MgrConnectAllLoop(c)
  \/ \E c \in Callers, s \in Serials : MgrDisconnect(c, s, 1)
  \/ \E c \in Callers : MgrClientDisconnected(c)
  \/ \E c \in Callers : MgrForwardRemove(c)
  \/ \E c \in Callers : MgrReturn(c)
  \/ \E k \in Blocks : MgrPeerDrop(k)

SpecManager == Init /\ [][NextManager]_vars

\* -------------------------------------------------------------- SpecRace
\* connect called by up to MaxCallers tasks that run concurrently: a call
\* is entered while another awaits adb or the client, on any serial.
NextRace ==
  \/ \E c \in Callers, s \in Serials : MgrConnect(c, s, MaxCallers)
  \/ \E c \in Callers, ok \in BOOLEAN : MgrForward(c, ok)
  \/ \E c \in Callers, ok \in BOOLEAN : MgrClientConnect(c, ok)
  \/ \E c \in Callers : MgrReturn(c)

SpecRace == Init /\ [][NextRace]_vars

\* ------------------------------------------------------------- SpecScope
\* The manager used as a scoped resource by one task: the calls of
\* SpecManager, the exit of the scope (disconnect_all), and a client whose
\* disconnect() raises.
NextScope ==
  \/ \E c \in Callers, s \in Serials : MgrConnect(c, s, 1)
  \/ \E c \in Callers, ok \in BOOLEAN : MgrForward(c, ok)
  \/ \E c \in Callers, ok \in BOOLEAN : MgrClientConnect(c, ok)
  \/ \E c \in Callers, s \in Serials : MgrDisconnect(c, s, 1)
  \/ \E c \in Callers : MgrClientDisconnected(c)
  \/ \E c \in Callers : MgrClientDisconnectRaises(c)
  \/ \E c \in Callers : MgrForwardRemove(c)
  \/ \E c \in Callers, order \in KeyOrders : MgrDisconnectAll(c, order, 1)
  \/ \E c \in Callers : MgrDisconnectAllLoop(c)
  \/ \E c \in Callers : MgrReturn(c)
  \/ \E k \in Blocks : MgrPeerDrop(k)

SpecScope == Init /\ [][NextScope]_vars

\* ----------------------------------------------------------- SpecPlanner
\* One plan call on every list of up to MaxTests tests, every list of
\* distinct serials and every strategy.
NextPlanner == Plan

\* every argument list of a plan call, nothing else having happened
InitPlan == InitClient /\ InitManager /\ InitPlanCall /\ InitRunner /\ InitExecutor /\ InitBus /\ InitListener /\ InitCli /\ InitCodec /\ InitOcr /\ InitConc

SpecPlanner == InitPlan /\ [][NextPlanner]_vars

\* ------------------------------------------------------------ SpecRunner
\* One run call on every list of up to MaxRunTests tests, the handler of each
\* attempt ending in any way, in time or after the timeout.
NextRunner ==
  \/ \E tests \in RunLists, serial \in RunSerials : RunBegin(tests, serial)
  \/ RunLoop
  \/ RunSingleLoop
  \/ \E b \in BodyEndings : HandlerEnds(b)
  \/ WaitForTimeout
  \/ HandlerCancelled
  \/ \E b \in BodyEndings : HandlerEndsAfterCancel(b)

SpecRunner == Init /\ [][NextRunner]_vars

\* ---------------------------------------------------------- SpecExecutor
\* One execute call on every list of up to MaxExecTests tests, with whatever
\* adb lists, forwards and connections failing at will, every worker ending
\* in any way, and the call being cancelled while the workers run.
NextExecutor ==
  \/ \E tests \in ExecTestLists, strategy \in ExecStrategies, max_workers \in 1..MaxWorkers,
        listed \in DeviceLists : Execute(tests, strategy, max_workers, listed)
  \/ MgrConnectAllLoop(ExecCaller)
  \/ \E ok \in BOOLEAN : MgrForward(ExecCaller, ok)
  \/ \E ok \in BOOLEAN : MgrClientConnect(ExecCaller, ok)
  \/ ExecConnected
  \/ \E s \in Serials : WorkerAcquire(s)
  \/ \E s \in Serials, statuses \in UNION {[1..n -> ResultStatuses] : n \in 1..MaxExecTests} :
        WorkerRunReturns(s, statuses)
  \/ \E s \in Serials : WorkerRunRaises(s)
  \/ ExecGathered
  \/ ExecCancel
  \/ \E s \in Serials : WorkerCancelled(s)
  \/ ExecCancelled

SpecExecutor == Init /\ [][NextExecutor]_vars

\* ------------------------------------------------------ SpecExecutorLive
\* SpecExecutor with the scheduling of the event loop: a worker that can take
\* the semaphore is woken (asyncio wakes the waiters of a released semaphore
\* in the order they arrived), and a worker inside runner.run comes to its
\* end, by returning or by raising.
WorkerEnds ==
  \E s \in Serials :
    \/ \E statuses \in UNION {[1..n -> ResultStatuses] : n \in 1..MaxExecTests} :
         WorkerRunReturns(s, statuses)
    \/ WorkerRunRaises(s)

SpecExecutorLive ==
  /\ Init
  /\ [][NextExecutor]_vars
  /\ WF_vars(\E s \in Serials : WorkerAcquire(s))
  /\ WF_vars(WorkerEnds)

\* --------------------------------------------------------------- SpecBus
\* Up to MaxEmits emit calls, one after another, the handlers of each ending
\* in any order, with on, on_all, the unsubscribe functions and clear called
\* at any moment, also while an emit call is under way.
NextBus ==
  \/ \E type \in EventTypes, h \in BusHandlers : On(type, h)
  \/ \E h \in BusHandlers : OnAll(h)
  \/ \E type \in EventTypes, h \in BusHandlers : Off(type, h)
  \/ \E h \in BusHandlers : OffAll(h)
  \/ \E type \in EventTypes : ClearType(type)
  \/ Clear
  \/ \E type \in EventTypes : EmitBegin(type)
  \/ \E j \in 1..MaxSubs : SafeCallStart(j)
  \/ \E j \in 1..MaxSubs, raised \in BOOLEAN : SafeCallEnd(j, raised)
  \/ EmitReturn

SpecBus == Init /\ [][NextBus]_vars

\* ----------------------------------------------------------- SpecBusConc
\* Up to MaxEmits emit calls made by up to MaxWorkers tasks that run
\* concurrently, the handlers awaiting and ending in any order, with
\* subscriptions made and taken back at any moment.
NextBusConc ==
  \/ \E type \in EventTypes, h \in BusHandlers : On(type, h)
  \/ \E h \in BusHandlers : OnAll(h)
  \/ \E type \in EventTypes, h \in BusHandlers : Off(type, h)
  \/ \E h \in BusHandlers : OffAll(h)
  \/ \E w \in Emitters, type \in EventTypes : ConcEmit(w, type)
  \/ ConcSafeCallStart
  \/ \E n \in 1..MaxEmits : ConcSafeCallEnd(n)
  \/ \E w \in Emitters : ConcEmitReturn(w)

SpecBusConc == Init /\ [][NextBusConc]_vars

\* ---------------------------------------------------------- SpecListener
\* The event reader of a connected client: up to MaxFrames frames, the
\* handlers returning or raising, on_event and the unsubscribe functions
\* called at any moment, also from inside a handler.
NextListener ==
  \/ \E h \in Listeners : ListenerOn(h)
  \/ \E h \in Listeners : ListenerOff(h)
  \/ ListenerReceive
  \/ ListenerUndecodable
  \/ ListenerNext
  \/ \E raised \in BOOLEAN : ListenerHandlerEnds(raised)
  \/ ListenerClosed

SpecListener == Init /\ [][NextListener]_vars

\* --------------------------------------------------------------- SpecCli
\* One invocation of the run command: any number of tests found, any number
\* of devices connected, the results of any status.
NextCli ==
  \/ \E tests \in 0..MaxCliTests, device \in BOOLEAN, parallel \in BOOLEAN :
        CliRun(tests, device, parallel)
  \/ \E n \in 0..MaxCliDevices : CliConnected(n)
  \/ CliConnectRaises
  \/ \E statuses \in UNION {[1..n -> CliStatuses] : n \in 1..(MaxCliTests * MaxCliDevices)} :
        CliFinished(statuses)

SpecCli == Init /\ [][NextCli]_vars

\* ------------------------------------------------------------- SpecCodec
\* Every Message encoded and decoded again, and every frame of the agent read
\* by the control reader while one request is pending.
NextCodec ==
  \/ \E m \in Messages : Encode(m)
  \/ Decode
  \/ \E frame \in AgentFrames : ControlReadFirst(frame)
  \/ \E frame \in LaterFrames : ControlReadLater(frame)

SpecCodec == Init /\ [][NextCodec]_vars

\* --------------------------------------------------------------- SpecOcr
\* One ocr_click call with any index up to MaxMatches and any timeout up to
\* MaxOcrTime poll intervals, every find_text returning any list of matches,
\* the awaits taking any time, a send failing at will.
NextOcr ==
  \/ \E index \in 0..MaxMatches, timeout \in 0..MaxOcrTime : OcrClick(index, timeout)
  \/ OcrTick
  \/ OcrScreenshotDone
  \/ OcrSendRaises
  \/ \E matches \in MatchLists : OcrFindTextDone(matches)
  \/ OcrSleepDone
  \/ OcrClickDone

SpecOcr == Init /\ [][NextOcr]_vars

\* ======================================================= DeviceClient claims
\* the client was connected and is now disconnected, no connect() or
\* disconnect() call being under way
Disconnected ==
  /\ ~connected
  /\ \E n \in SockIds : ctlReader[n] # "none"
  /\ cpc = "idle"
  /\ dpc = "idle"

\* C1: every send that installed a slot and was not cancelled ends in exactly
\* one of: a response with its id (a result or the agent's error), its timeout,
\* the connection being closed (the slot failed by disconnect(), or the write
\* on the closed socket raising); and once the client is disconnected the
\* pending table is empty.
C1_OneOutcomeNoSlotOutlives ==
  /\ \A i \in ReqIds :
       (sendPc[i] = "done" /\ sendOutcome[i] \notin {"not_connected", "cancelled"})
         => sendOutcome[i] \in {"response", "agent_error", "timeout", "disconnected",
                                "write_failed"}
  /\ Disconnected => pending = {}

\* C2: correlation is by id: a future is only ever resolved with the response
\* that carries its own request's id, and send returns only such a response,
\* whatever the order of the agent's replies.
C2_CorrelationById ==
  \A i \in ReqIds :
    /\ future[i] = "result" =>
         (futureResult[i].type = "response" /\ futureResult[i].id = i)
    /\ sendOutcome[i] = "response" => sendReturned[i].id = i

\* C2 witness: r1 and r2 were both pending, the agent replied to 2 and then
\* to 1, and both send calls returned.
C2_Witness ==
  /\ agentWritten = <<2, 1>>
  /\ sendOutcome[1] = "response"
  /\ sendOutcome[2] = "response"

\* the control reader takes a frame with id i off some control socket
DeliversFrameFor(i) ==
  \E n \in SockIds :
    /\ ctlReader[n] = "running"
    /\ wire[n] # <<>>
    /\ Head(wire[n]).id = i
    /\ wire'[n] = Tail(wire[n])

\* C3: when the except branch of send runs after the timeout, the slot is gone,
\* the caller gets the timeout error and no frame is written; a response for
\* that id delivered afterwards changes neither the table nor any future nor
\* any send call, and invokes no event handler.
C3_TimeoutThenLateResponse ==
  [][\A i \in ReqIds :
       /\ (sendPc[i] = "timed_out" /\ sendPc'[i] = "done") =>
            /\ i \notin pending'
            /\ sendOutcome'[i] = "timeout"
            /\ future'[i] = "cancelled"
            /\ sent' = sent
       /\ (sendOutcome[i] = "timeout" /\ DeliversFrameFor(i)) =>
            UNCHANGED <<pending, future, futureResult, sendPc, sendOutcome,
                        sendReturned, notified, sent>>]_vars

\* C3 witness: send 1 timed out, the agent replied to it all the same, and the
\* running reader has taken the reply off the open socket.
C3_Witness ==
  /\ sendOutcome[1] = "timeout"
  /\ agentWritten = <<1>>
  /\ \E n \in SockIds :
       ctlState[n] = "open" /\ ctlReader[n] = "running" /\ wire[n] = <<>> /\ 1 \in agentInbox[n]

\* C4: once a control socket that had a reader is closed and the client has
\* dealt with it (the reader ended, no disconnect() under way), no send is
\* still waiting on an unresolved slot: the close resolved every one of them.
C4_CloseFailsPending ==
  \A n \in SockIds :
    (ctlState[n] = "closed" /\ ctlReader[n] = "ended" /\ dpc = "idle") =>
      \A i \in ReqIds : ~(sendPc[i] = "waiting" /\ future[i] = "pending")

\* C5: a send whose awaiting task was cancelled has no slot in the pending table.
C5_CancelRemovesSlot ==
  \A i \in ReqIds : sendOutcome[i] = "cancelled" => i \notin pending

\* C6: a connect() entered while the client is connected fails fast: it never
\* gets to open a socket.
C6_SecondConnectFailsFast ==
  cpc \in {"control", "event"} => ~cStartedConnected

\* ====================================================== DeviceManager claims
\* the offsets of a port block
BlockOffsets == 0..(PortsPerDevice - 1)

\* C7: a connect(serial) call that has failed, with device-offline from a
\* failed forward or with the client's connection error, has left none of the
\* forwards of its port block installed and has not registered its client.
C7_FailedConnectRollsBack ==
  \A c \in Callers :
    (call[c].op = "connect" /\ call[c].pc = "done"
       /\ call[c].res.kind \in {"device_offline", "connection_error"}) =>
      /\ \A o \in BlockOffsets : <<call[c].serial, call[c].local_port + o>> \notin forwards
      /\ clients[call[c].serial] # ClientAt(call[c].local_port)

\* C8: a connect(serial) call entered while the pool holds a connected client
\* for the serial ends at once with that client as its result, and leaves the
\* port counter, the port map, the forwards and the pool as they are.
C8_PooledClientReturned ==
  [][\A c \in Callers, s \in Serials :
       (/\ call[c].pc = "idle"
        /\ call'[c].op = "connect"
        /\ call'[c].serial = s
        /\ clients[s] # NoClient
        /\ clientState[clients[s]] = "connected") =>
         /\ call'[c].pc = "done"
         /\ call'[c].res = [kind |-> "client", client |-> clients[s], list |-> <<>>]
         /\ UNCHANGED <<next_local_port, port_map, forwards, clients, clientState>>]_vars

\* C8 witness: a connect call has returned a client without taking a port block,
\* the client the pool holds for the serial.
C8_Witness ==
  \E c \in Callers :
    /\ call[c].op = "connect"
    /\ call[c].pc = "done"
    /\ call[c].res.kind = "client"
    /\ call[c].local_port = NoPort
    /\ call[c].res.client = clients[call[c].serial]
    /\ next_local_port = PortOf(2)

\* the clients of the connect calls that succeeded, in the order of the calls
SucceededClients(log) ==
  LET good == SelectSeq(log, LAMBDA e : e.ok) IN
  [j \in 1..Len(good) |-> good[j].client]

\* C9: a connect_all() call that has ended has called connect on exactly the
\* listed devices whose state is "device", in the listed order, whatever the
\* outcome of each; it has raised nothing; and it has returned the clients of
\* the connect calls that succeeded, in that order.
C9_ConnectAllContinues ==
  \A c \in Callers :
    (call[c].op = "connect_all" /\ call[c].pc = "done") =>
      LET f == call[c]
          on == SelectSeq(f.discovered, LAMBDA d : d.state = "device") IN
      /\ f.res.kind = "list"
      /\ Len(f.log) = Len(on)
      /\ \A j \in 1..Len(on) : f.log[j].serial = on[j].serial
      /\ f.res.list = SucceededClients(f.log)

\* C9 witness: connect_all found two online devices, the connect of the first
\* failed, the connect of the second succeeded and its client alone is returned.
C9_Witness ==
  \E c \in Callers :
    /\ call[c].op = "connect_all"
    /\ call[c].pc = "done"
    /\ Len(call[c].log) = 2
    /\ ~call[c].log[1].ok
    /\ call[c].log[2].ok
    /\ call[c].res.list = <<call[c].log[2].client>>

EverConnected ==
  {k \in Blocks : clientState[k] \in {"connected", "dropped", "disconnected", "close_failed"}}

\* C11: when the scope of the manager has been left (the disconnect_all of
\* __aexit__ has ended, normally or with the exception of a failed
\* disconnect), every client the manager connected has had disconnect() run
\* on it: to the end, or for the one that failed, up to its failure.
C11_ScopeExitDisconnectsAll ==
  \A c \in Callers :
    (call[c].op = "disconnect_all" /\ call[c].pc = "done") =>
      \A k \in EverConnected : clientState[k] \in {"disconnected", "close_failed"}

\* ========================================================= TestPlanner claims
\* the places of test t in plan p: <<serial, index>> in an assignment,
\* <<"", index>> in unassigned
Places(p, t) ==
  {<<d, j>> \in UNION {{e} \X DOMAIN p.assignments[e] : e \in DOMAIN p.assignments} :
     p.assignments[d][j] = t}
  \cup {<<"", j>> : j \in {i \in DOMAIN p.unassigned : p.unassigned[i] = t}}

\* the tests given to the plan call
Given == {p_tests[j] : j \in 1..Len(p_tests)}

\* the serials given to the plan call
GivenSerials == {p_device_serials[j] : j \in 1..Len(p_device_serials)}

\* C12: the plan returned by plan() holds only tests it was given; without
\* devices its assignments are empty and unassigned is the list of tests;
\* under duplicate every device of the list has the whole list of tests, in
\* the order given; under every other strategy each test given has exactly
\* one place, in one assignment or in unassigned.
C12_PlanInvariant ==
  p_returned =>
    /\ \A d \in DOMAIN p_plan.assignments :
         \A j \in DOMAIN p_plan.assignments[d] : p_plan.assignments[d][j] \in Given
    /\ \A j \in DOMAIN p_plan.unassigned : p_plan.unassigned[j] \in Given
    /\ DOMAIN p_plan.assignments \subseteq GivenSerials
    /\ IF p_device_serials = <<>>
         THEN DOMAIN p_plan.assignments = {} /\ p_plan.unassigned = p_tests
         ELSE IF p_strategy = "duplicate"
           THEN /\ DOMAIN p_plan.assignments = GivenSerials
                /\ \A d \in GivenSerials : p_plan.assignments[d] = p_tests
                /\ p_plan.unassigned = <<>>
           ELSE \A t \in Given : Cardinality(Places(p_plan, t)) = 1

\* C12 witness: a capability plan of three tests over two devices with a test
\* left unassigned and a test in each queue.
C12_Witness ==
  /\ p_returned
  /\ p_strategy = "capability_match"
  /\ Len(p_tests) = 3
  /\ Len(p_device_serials) = 2
  /\ Len(p_plan.unassigned) = 1
  /\ \A d \in GivenSerials : Len(p_plan.assignments[d]) = 1

\* C13: under round_robin with t tests and d >= 1 devices every device's
\* queue has floor(t/d) or ceil(t/d) tests, and in no queue does a test come
\* after one of lower priority.
C13_RoundRobinBalanced ==
  (p_returned /\ p_strategy = "round_robin" /\ p_device_serials # <<>>) =>
    LET t == Len(p_tests)
        d == Len(p_device_serials) IN
    /\ DOMAIN p_plan.assignments = GivenSerials
    /\ \A dev \in GivenSerials :
         LET q == p_plan.assignments[dev] IN
         /\ Len(q) \in {t \div d, (t + d - 1) \div d}
         /\ \A i, j \in 1..Len(q) : i < j => q[i].priority >= q[j].priority

\* C13 witness: three tests given in rising priority, planned round-robin over
\* two devices, so that the queues are uneven and the order given is not kept.
C13_Witness ==
  /\ p_returned
  /\ p_strategy = "round_robin"
  /\ Len(p_device_serials) = 2
  /\ Len(p_tests) = 3
  /\ p_tests[1].priority < p_tests[2].priority
  /\ p_tests[2].priority < p_tests[3].priority
  /\ Len(p_plan.assignments[p_device_serials[1]]) = 2
  /\ Len(p_plan.assignments[p_device_serials[2]]) = 1

\* the tests of the literal scenario: t1 priority 0, t2 priority 10, t3 priority 5
ScenarioTest(n, pri) == [name |-> n, priority |-> pri, devices |-> {}]

\* the round-robin call of the literal scenario has returned
ScenarioPlanned ==
  /\ p_returned
  /\ p_strategy = "round_robin"
  /\ p_device_serials = <<"A", "B">>
  /\ p_tests = <<ScenarioTest(1, 0), ScenarioTest(2, 10), ScenarioTest(3, 5)>>

\* C14 as stated: round-robin of [t1 pri 0, t2 pri 10, t3 pri 5] over
\* ["A", "B"] yields A: [t2, t3], B: [t1].
C14_ScenarioAsStated ==
  ScenarioPlanned =>
    p_plan = ExecutionPlan([d \in {"A", "B"} |->
                              IF d = "A" THEN <<ScenarioTest(2, 10), ScenarioTest(3, 5)>>
                                         ELSE <<ScenarioTest(1, 0)>>], <<>>)

\* C14 amended: round-robin of [t1 pri 0, t2 pri 10, t3 pri 5] over
\* ["A", "B"] yields A: [t2, t1], B: [t3]: the tests sorted by priority are
\* t2, t3, t1 and go to A, B, A in turn.
C14_ScenarioAmended ==
  ScenarioPlanned =>
    p_plan = ExecutionPlan([d \in {"A", "B"} |->
                              IF d = "A" THEN <<ScenarioTest(2, 10), ScenarioTest(1, 0)>>
                                         ELSE <<ScenarioTest(3, 5)>>], <<>>)

\* C14 witness: the plan of the literal scenario has been made and t3 is in
\* B's queue.
C14_Witness ==
  /\ ScenarioPlanned
  /\ p_plan.assignments["B"] = <<ScenarioTest(3, 5)>>

\* the plan capability_match makes of the first n tests given
PlanOfFirst(n) == capability_match(SubSeq(p_tests, 1, n), p_device_serials)

\* the devices of list q whose queue in plan p is shorter than that of q[j],
\* or as short and earlier in q
Before(p, q, j) ==
  {m \in 1..Len(q) :
     \/ Len(p.assignments[q[m]]) < Len(p.assignments[q[j]])
     \/ Len(p.assignments[q[m]]) = Len(p.assignments[q[j]]) /\ m < j}

\* C15: under capability_match the n-th test goes, given the plan of the
\* tests before it: with required devices, to unassigned when none of them
\* is in the device list, else to the end of the queue of a device that is
\* both in the list and required, and no such device has a shorter queue or
\* an equal queue and an earlier place in the list; without required
\* devices, to the device of the list with the shortest queue, the earliest
\* of them; and nothing else in the plan changes.
C15_CapabilityMatch ==
  (p_returned /\ p_strategy = "capability_match" /\ p_device_serials # <<>>) =>
    /\ p_plan = PlanOfFirst(Len(p_tests))
    /\ \A n \in 1..Len(p_tests) :
         LET old == PlanOfFirst(n - 1)
             new == PlanOfFirst(n)
             t == p_tests[n]
             cands == IF t.devices = {} THEN p_device_serials
                      ELSE SelectSeq(p_device_serials, LAMBDA d : d \in t.devices) IN
         IF cands = <<>>
           THEN /\ new.unassigned = Append(old.unassigned, t)
                /\ new.assignments = old.assignments
           ELSE \E j \in 1..Len(cands) :
                  /\ Before(old, cands, j) = {}
                  /\ new.assignments = [old.assignments EXCEPT ![cands[j]] = Append(@, t)]
                  /\ new.unassigned = old.unassigned

\* C15 witness: devices [A, B, C]; the first test requires [B, Z] and is in
\* B's queue; the second requires [B, C] and is in C's queue, the shorter of
\* the two; the third has no requirement and is in A's queue.
C15_Witness ==
  /\ p_returned
  /\ p_strategy = "capability_match"
  /\ p_device_serials = <<"A", "B", "C">>
  /\ Len(p_tests) = 3
  /\ p_tests[1].devices = {"B", "Z"}
  /\ p_tests[2].devices = {"B", "C"}
  /\ p_tests[3].devices = {}
  /\ p_plan.assignments["B"] = <<p_tests[1]>>
  /\ p_plan.assignments["C"] = <<p_tests[2]>>
  /\ p_plan.assignments["A"] = <<p_tests[3]>>

\* ========================================================== TestRunner claims
\* C16: an attempt whose handler body ended with a failed assert has given
\* last_result the status failed and the message of the assert.
C16_AssertionIsFailed ==
  (r_pc = "single" /\ r_body = "asserts") =>
    /\ r_last.status = "failed"
    /\ r_last.error_message = AssertMessage

\* C17: an attempt whose timeout has elapsed, so that wait_for has cancelled
\* the handler's task, ends with a result of status error, and the runner is
\* back in its loop.
C17_TimeoutIsError ==
  [][r_pc = "cancelling" => (r_pc' = "single" /\ r_last'.status = "error")]_vars

\* C18: the handler of a test is invoked only while fewer than retry + 1
\* invocations were made and no attempt has passed; a test is finished only
\* after at least one invocation, after a passed attempt or after retry + 1
\* invocations (exactly one with retry 0); the result appended for it is the
\* last attempt's; and run.completed counts each result once, so a test that
\* failed twice and passed on the third attempt counts once as passed.
C18_Retry ==
  [][/\ (r_pc = "single" /\ r_pc' = "handler") =>
          /\ r_attempt < current.retry + 1
          /\ r_attempt' = r_attempt + 1
          /\ r_last = NoLast \/ r_last.status # "passed"
     /\ (r_pc = "single" /\ r_pc' = "loop") =>
          /\ r_attempt >= 1
          /\ r_attempt <= current.retry + 1
          /\ current.retry = 0 => r_attempt = 1
          /\ r_last.status # "passed" => r_attempt = current.retry + 1
          /\ r_last # NoLast
          /\ r_results' = Append(r_results, r_last)
     /\ r_pc' = "done" =>
          /\ Len(r_results') = Len(r_tests)
          /\ r_completed'.total = Len(r_tests)
          /\ r_completed'.passed =
               Cardinality({j \in 1..Len(r_tests) : r_results'[j].status = "passed"})
          /\ (Len(r_tests) = 1 /\ r_attempt = 3 /\ r_failed /\ r_last.status = "passed") =>
               r_completed'.passed = 1 /\ r_results'[1].status = "passed"]_vars

\* C18 witness: a run of one test with retry 2 has ended; the handler was
\* invoked three times, the first two attempts ended failed and the third
\* passed; the result is passed and run.completed counts one passed test.
C18_Witness ==
  /\ r_pc = "done"
  /\ Len(r_tests) = 1
  /\ r_tests[1].retry = 2
  /\ r_attempt = 3
  /\ r_failed
  /\ r_results = <<TestResult(1, "passed", r_serial, "")>>
  /\ r_completed.passed = 1
  /\ r_completed.failed = 0

\* C19: every result of the run has the serial of the device, which is not
\* empty, and a status among passed, failed, error and skipped.
C19_ResultsStampedAndFinal ==
  \A j \in 1..Len(r_results) :
    /\ r_results[j].device_serial = r_serial
    /\ r_results[j].device_serial # ""
    /\ r_results[j].status \in {"passed", "failed", "error", "skipped"}

\* C20: a test whose last attempt ended with the ConnectionError of send has
\* an error result, and the run goes on: a run that has ended has attempted
\* every test and has one result per test, in the order of the tests.
C20_TransportErrorIsolated ==
  /\ Len(r_log) = Len(r_results)
  /\ \A j \in 1..Len(r_log) :
       r_log[j].transport_error =>
         /\ r_results[j].status = "error"
         /\ r_results[j].name = r_tests[j].name
  /\ r_pc = "done" =>
       /\ Len(r_results) = Len(r_tests)
       /\ \A k \in 1..Len(r_tests) : r_log[k].attempted /\ r_results[k].name = r_tests[k].name

\* C20 witness: a run of two tests has ended; the first test ended with the
\* ConnectionError of send and has an error result; the second was run after
\* it and passed.
C20_Witness ==
  /\ r_pc = "done"
  /\ Len(r_tests) = 2
  /\ r_tests[1].func = "function"
  /\ r_log[1].transport_error
  /\ r_results[1] = TestResult(1, "error", r_serial, "ConnectionError: Disconnected")
  /\ r_log[2].attempted
  /\ r_results[2].status = "passed"

\* =================================================== ParallelExecutor claims
\* the results of e_return that carry the serial s
ResultsOn(s) == SelectSeq(e_return.results, LAMBDA r : r.device_serial = s)

\* C21: when execute returns, a worker whose runner.run raised has left one
\* error result for every test of its list, stamped with its serial, and the
\* results of every other worker are the ones its runner.run returned.
C21_WorkerFailureIsolated ==
  (e_pc = "done" /\ e_return.error = NoError) =>
    \A s \in TaskSet :
      IF w_run[s] = "raised"
        THEN /\ Len(ResultsOn(s)) = Len(e_plan.assignments[s])
             /\ \A j \in 1..Len(ResultsOn(s)) :
                  /\ ResultsOn(s)[j].name = e_plan.assignments[s][j].name
                  /\ ResultsOn(s)[j].status = "error"
        ELSE /\ w_run[s] = "returned"
             /\ ResultsOn(s) = w_results[s]
             /\ Len(ResultsOn(s)) = Len(e_plan.assignments[s])

\* C21 witness: execute has returned, one worker failed, another passed a test
C21_Witness ==
  /\ e_pc = "done"
  /\ \E s, t \in TaskSet :
       /\ w_run[s] = "raised"
       /\ w_run[t] = "returned"
       /\ \E j \in 1..Len(ResultsOn(t)) : ResultsOn(t)[j].status = "passed"

\* C22 (as stated): a cancelled execute returns a result that holds an error
\* result on the serial of every worker that was running a test.
C22_CancelReturnsCollected ==
  e_pc = "cancelled" =>
    /\ e_return.kind = "result"
    /\ \A s \in TaskSet :
         w_run[s] = "cancelled" =>
           \E j \in 1..Len(ResultsOn(s)) : ResultsOn(s)[j].status = "error"

\* C23 (as stated): an execute call with no tests touches no device: adb is
\* not asked for the devices, no forward is installed, no client connects.
C23_NoTestsNoDevices ==
  (e_pc # "idle" /\ e_tests = <<>>) =>
    /\ call[ExecCaller].op = "idle"
    /\ forwards = {}
    /\ \A k \in Blocks : clientState[k] = "none"
    /\ e_return.kind = "result" => ExecutionResult_is_success(e_return)

\* =========================================================== EventBus claims
\* C24: an emit call that has returned has invoked every handler it selected,
\* and each of them has run to its end, by returning or by raising an
\* exception that was swallowed; emit itself ends by returning.
C24_EmitWaitsAndSwallows ==
  b_emit.pc = "returned" =>
    /\ \A j \in 1..Len(b_emit.handlers) : b_emit.tasks[j] \in {"returned", "swallowed"}
    /\ \A h \in BusHandlers : b_calls[h] = occurrences(b_emit.handlers, h)

\* C24 witness: emit returned after one handler raised and another returned,
\* the two having been under way at the same time
C24_Witness ==
  /\ b_emit.pc = "returned"
  /\ b_overlap
  /\ \E j, m \in 1..Len(b_emit.tasks) :
       b_emit.tasks[j] = "swallowed" /\ b_emit.tasks[m] = "returned"

\* C25: an emit call invokes each handler once for every subscription it held
\* when the call started, to the event's type or to all events, whatever on,
\* on_all, the unsubscribe functions and clear do while the call is under way:
\* never more, and exactly that often once the call has returned.
C25_SnapshotAtEmit ==
  \A h \in BusHandlers :
    LET held == occurrences(b_at_start.typed, h) + occurrences(b_at_start.wildcard, h) IN
    /\ b_calls[h] <= held
    /\ b_emit.pc = "returned" => b_calls[h] = held

\* C25 witness: an emit call has returned having invoked a handler that was
\* unsubscribed while the call was under way and is subscribed nowhere now
C25_Witness ==
  /\ b_emit.pc = "returned"
  /\ b_emit.changed
  /\ \E h \in BusHandlers :
       /\ b_calls[h] > 0
       /\ occurrences(b_wildcard, h) = 0
       /\ \A t \in EventTypes : occurrences(b_handlers[t], h) = 0

\* ====================================================== _listen_events claims
\* C26 (as stated): once the dispatch of a frame is over, every handler that
\* stayed subscribed throughout has been invoked with it, also when a handler
\* unsubscribed itself or another during the dispatch.
C26_DispatchReachesAll ==
  (l_pc = "waiting" /\ l_msg > 0) => \A h \in l_stayed : h \in members(l_got[l_msg])

\* ======================================================== run command claims
\* C27 (as stated): when the run command ends, a failed or error result, or
\* no device being available, gives an exit code other than 0, and results
\* that all passed give 0.
C27_ExitCodeReflectsResults ==
  c_pc = "done" =>
    /\ (\E j \in 1..Len(c_all_results) : c_all_results[j] \in {"failed", "error"})
         => c_exit # 0
    /\ (c_tests > 0 /\ c_clients = 0) => c_exit # 0
    /\ (c_all_results # <<>> /\ \A j \in 1..Len(c_all_results) : c_all_results[j] = "passed")
         => c_exit = 0

\* ================================================================ codec claims
\* the fields the round trip is stated on
Compared == {"id", "type", "method", "params", "result", "error"}

\* C28: a Message that was encoded and decoded again is the same on id, type,
\* method, params, result and error; its frame holds exactly the fields that
\* are not None, none of them as null. A frame that carries id and type
\* decodes to a Message whose method, params, result and error are None unless
\* the frame holds them, and a key the dataclass does not have changes nothing.
C28_RoundTrip ==
  /\ k_pc = "decoded" =>
       /\ ~k_decoded.raised
       /\ \A f \in Compared : k_decoded.msg[f] = k_msg[f]
       /\ DOMAIN k_frame.obj = {f \in Fields : k_msg[f] # None}
       /\ \A f \in DOMAIN k_frame.obj : k_frame.obj[f] # None
  /\ (k_pc \in {"decoded", "read"} /\ ~k_decoded.raised
        /\ {"id", "type"} \subseteq DOMAIN k_frame.obj) =>
       /\ \A f \in Compared : f \notin DOMAIN k_frame.obj => k_decoded.msg[f] = None
       /\ \A f \in Compared \cap DOMAIN k_frame.obj : k_decoded.msg[f] = k_frame.obj[f]
       /\ DOMAIN k_decoded.msg = Fields

\* C28 witness: a Message with an error and without params has made the round
\* trip
C28_Witness ==
  /\ k_pc = "decoded"
  /\ k_msg.error # None
  /\ k_msg.params = None
  /\ "params" \notin DOMAIN k_frame.obj
  /\ k_decoded.msg.error = k_msg.error

\* C29 (as stated): a frame without id or without type is rejected: from_json
\* raises, no Message is made of it and no pending request is resolved.
C29_FrameWithoutIdOrTypeRejected ==
  (k_pc = "read" /\ k_frame.text = "json"
     /\ ~({"id", "type"} \subseteq DOMAIN k_frame.obj)) =>
    /\ k_decoded.raised
    /\ k_resolved = {}

\* ============================================================ ocr_click claims
\* the ui.click requests among the requests sent
Clicks == SelectSeq(o_sent, LAMBDA q : q.method = "ui.click")

\* the screenshots among the requests sent
Screenshots == SelectSeq(o_sent, LAMBDA q : q.method = "device.screenshot")

\* C30: ocr_click takes a screenshot for every find_text; it goes on polling
\* only while no match is at index and the deadline has not passed; when it
\* returns it has sent exactly one ui.click, the last request, at the centre
\* of the bounds of the match at index, which is the match it returns; when it
\* raises element-not-found the deadline has passed, the latest matches have
\* none at index, and no click was sent.
C30_OcrClick ==
  /\ Len(Clicks) <= 1
  /\ o_pc = "sleep" =>
       /\ Len(o_matches) <= o_index
       /\ o_wake - 1 < o_deadline
       /\ Clicks = <<>>
  /\ o_pc = "returned" =>
       LET b == o_matches[o_index + 1] IN
       /\ Len(o_matches) > o_index
       /\ Len(Clicks) = 1
       /\ o_sent[Len(o_sent)] = Clicks[1]
       /\ 2 * Clicks[1].x \in {b.left + b.right, b.left + b.right - 1}
       /\ 2 * Clicks[1].y \in {b.top + b.bottom, b.top + b.bottom - 1}
       /\ o_result.bounds = <<b>>
       /\ o_result.click_x = Clicks[1].x
       /\ o_result.click_y = Clicks[1].y
  /\ (o_pc = "raised" /\ o_result.kind = "element_not_found") =>
       /\ o_time >= o_deadline
       /\ Len(o_matches) <= o_index
       /\ Clicks = <<>>

\* C30 witness: the call returned the second match after a poll that found
\* too few, the centre of its bounds being rounded down
C30_Witness ==
  /\ o_pc = "returned"
  /\ o_index = 1
  /\ Len(Screenshots) >= 2
  /\ o_result.click_x = 5
  /\ o_result.click_y = 15

\* ------------------------------------------------------------------ C31
\* C31: a completion slot is resolved at most once: once the future of a
\* request is done (a result set, an exception set, or cancelled by the
\* timeout), no step of the control reader, of a duplicate response, of the
\* timeout or of disconnect() sets anything on it again.
C31_ResolvedAtMostOnce ==
  [][\A i \in ReqIds :
       future[i] \in {"result", "exception", "cancelled"}
         => /\ future'[i] = future[i]
            /\ futureResult'[i] = futureResult[i]]_vars

\* the agent answered request i twice, the reader has read both frames, and
\* the future holds the first answer
C31_Witness ==
  \E i \in ReqIds, n \in SockIds :
    /\ agentWritten = <<i, i>>
    /\ ctlReader[n] = "running"
    /\ wire[n] = <<>>
    /\ future[i] = "result"
    /\ futureResult[i].id = i

\* ------------------------------------------------------------------ C32
\* the DeviceConfig connect() builds for the client of a block
client_config(local_port) ==
  [control_port |-> local_port, binary_port |-> local_port + 1,
   event_port |-> local_port + 2]

\* the local ports of the block that starts at local_port
BlockPorts(local_port) ==
  {client_config(local_port).control_port, client_config(local_port).binary_port,
   client_config(local_port).event_port}

\* the blocks in use: those registered in the port map and those of the
\* connect calls in progress
BlocksInUse ==
  {port_map[s] : s \in {x \in Serials : port_map[x] # NoPort}}
    \cup {call[c].local_port : c \in {x \in Callers : call[x].local_port # NoPort}}

\* C32: the port allocator is monotonic. The counter only ever advances, by
\* exactly three, and the connect call that advances it takes the three
\* consecutive ports that start at the old value: the k-th block (k = 0, 1,
\* ...) is 28900+3k for control, +1 for binary, +2 for event. Blocks are never
\* recycled, so the blocks of two different clients share no port, and no
\* local port is forwarded for two serials.
C32_PortBlocksMonotonic ==
  /\ [](\E k \in 0..MaxBlocks : next_local_port = 28900 + 3 * k)
  /\ [](\A b \in BlocksInUse :
          /\ b < next_local_port
          /\ \E k \in 0..(MaxBlocks - 1) :
               client_config(b) = [control_port |-> 28900 + 3 * k,
                                   binary_port |-> 28900 + 3 * k + 1,
                                   event_port |-> 28900 + 3 * k + 2])
  /\ [](\A b, d \in BlocksInUse : b # d => BlockPorts(b) \cap BlockPorts(d) = {})
  /\ [](\A x, y \in forwards : x[2] = y[2] => x[1] = y[1])
  /\ [][next_local_port' # next_local_port =>
          /\ next_local_port' = next_local_port + 3
          /\ \E c \in Callers :
               /\ call[c].local_port # next_local_port
               /\ call'[c].local_port = next_local_port
               /\ call'[c].pc = "forward"]_vars

\* three blocks have been handed out; the first one was given up by a
\* disconnect and has not been used again: the two serials hold the second
\* and the third
C32_Witness ==
  /\ next_local_port = PortOf(4)
  /\ \E s, u \in Serials :
       /\ s # u
       /\ port_map[s] = PortOf(3)
       /\ port_map[u] = PortOf(2)
       /\ is_connected(clients[s])
       /\ is_connected(clients[u])
  /\ \A x \in forwards : x[2] \notin BlockPorts(PortOf(1))

\* ------------------------------------------------------------------ C33
\* results of the list with the given status, counted one by one
Counted(results, status) ==
  Cardinality({j \in 1..Len(results) : results[j].status = status})

\* C33: within one run, tests execute strictly in planned order and the
\* lifecycle events follow that order: run.started is first; the j-th test's
\* test.started and test.completed are the 2j-th and (2j+1)-th events, so the
\* completed of a test precedes the started of the next; a handler runs only
\* while the last event is the test.started of its test; run.completed is
\* last and carries the total, passed, failed and error counts of the
\* returned results.
C33_EventsFollowPlannedOrder ==
  r_pc # "idle" =>
    /\ Len(r_events) >= 1
    /\ r_events[1] = Event("run.started", [total |-> Len(r_tests), device |-> r_serial])
    /\ Len(r_results) = r_index
    /\ \A j \in 1..Len(r_results) :
         /\ r_events[2 * j] = Event("test.started", [name |-> r_tests[j].name, index |-> j - 1])
         /\ r_events[2 * j + 1] = Event("test.completed", [name |-> r_tests[j].name,
                                                          status |-> r_results[j].status])
    /\ r_pc = "loop" => Len(r_events) = 2 * r_index + 1
    /\ r_pc \in {"single", "handler", "cancelling"} =>
         /\ Len(r_events) = 2 * r_index + 2
         /\ r_events[Len(r_events)] =
              Event("test.started", [name |-> r_tests[r_index + 1].name, index |-> r_index])
    /\ r_pc = "done" =>
         /\ Len(r_results) = Len(r_tests)
         /\ Len(r_events) = 2 * r_index + 2
         /\ r_events[Len(r_events)] =
              Event("run.completed", [total |-> Len(r_results),
                                      passed |-> Counted(r_results, "passed"),
                                      failed |-> Counted(r_results, "failed"),
                                      error |-> Counted(r_results, "error")])

\* a run of two tests has returned: six events, the first test failed, the
\* second was retried and ended in error
C33_Witness ==
  /\ r_pc = "done"
  /\ Len(r_tests) = 2
  /\ Len(r_events) = 6
  /\ r_results[1].status = "failed"
  /\ r_results[2].status = "error"
  /\ r_events[6].data.failed = 1
  /\ r_events[6].data.error = 1

\* ------------------------------------------------------------------ C34
\* C34: during execute the workers inside "async with semaphore" are never
\* more than max_workers; no device has two workers; and, unless the call is
\* cancelled, every worker waiting for the semaphore gets to run once the
\* workers ahead of it have ended.
C34_BoundedWorkers ==
  /\ [](Cardinality({s \in Serials : w_pc[s] = "running"}) <= e_max_workers)
  /\ [](\A i, j \in 1..Len(e_tasks) : e_tasks[i] = e_tasks[j] => i = j)
  /\ [](e_pc = "gather" =>
          \A s \in DOMAIN e_plan.assignments :
            e_plan.assignments[s] # <<>> => \E j \in 1..Len(e_tasks) : e_tasks[j] = s)
  /\ \A s \in Serials :
       (w_pc[s] = "waiting") ~> (w_pc[s] = "running" \/ e_pc \in {"cancelling", "cancelled"})

\* two workers and one permit: one worker has ended, the other is running
\* after having waited for it
C34_Witness ==
  /\ e_pc = "gather"
  /\ e_max_workers = 1
  /\ Len(e_tasks) = 2
  /\ w_pc[e_tasks[1]] = "returned"
  /\ w_pc[e_tasks[2]] = "running"

\* ------------------------------------------------------------------ C35
\* the positions of the returned results that carry the test name and the serial
ResultsFor(name, s) ==
  {i \in 1..Len(e_return.results) :
     e_return.results[i].name = name /\ e_return.results[i].device_serial = s}

\* C35: the ExecutionResult of a completed execute that had a connected
\* device holds exactly one TestResult for each (test, device) pair of the
\* plan's assignments and none for any other pair, whether the worker of the
\* device returned or failed.
C35_OneResultPerPlannedPair ==
  (e_pc = "done" /\ e_return.device_count > 0) =>
    /\ \A s \in DOMAIN e_plan.assignments :
         \A j \in 1..Len(e_plan.assignments[s]) :
           Cardinality(ResultsFor(e_plan.assignments[s][j].name, s)) = 1
    /\ \A i \in 1..Len(e_return.results) :
         \E s \in DOMAIN e_plan.assignments :
           \E j \in 1..Len(e_plan.assignments[s]) :
             /\ e_return.results[i].name = e_plan.assignments[s][j].name
             /\ e_return.results[i].device_serial = s

\* two tests duplicated on two devices: one worker failed, the other
\* returned, and the result holds the four pairs
C35_Witness ==
  /\ e_pc = "done"
  /\ e_strategy = "duplicate"
  /\ Len(e_tests) = 2
  /\ Len(e_tasks) = 2
  /\ w_run[e_tasks[1]] = "raised"
  /\ w_run[e_tasks[2]] = "returned"
  /\ Len(e_return.results) = 4

\* ------------------------------------------------------------------ C36
\* C36: FIFO per subscriber: of any two emit calls on the bus, also when
\* they are made by tasks that run concurrently, every handler is invoked
\* with the event of the earlier call before it is invoked with the event
\* of the later call.
C36_FifoPerSubscriber ==
  \A i, j \in 1..Len(q_log) :
    (q_log[i].handler = q_log[j].handler /\ q_log[i].emit < q_log[j].emit) => i < j

\* a handler was invoked for two emit calls of two tasks while both calls
\* were under way, and another handler was invoked in between
C36_Witness ==
  /\ Len(q_log) = 3
  /\ q_log[1].handler = q_log[3].handler
  /\ q_log[1].emit = 1
  /\ q_log[3].emit = 2
  /\ q_log[2].handler # q_log[1].handler
  /\ \A w \in Emitters : q_await[w] # 0

\* ------------------------------------------------------------------ C37
\* C37 (as stated): when the write of the request frame fails inside send,
\* the error leaves send and no entry of that request is left in the
\* pending-request table.
C37_WriteFailureLeavesNoSlot ==
  \A i \in ReqIds :
    sendOutcome[i] = "write_failed" => (sendPc[i] = "done" /\ i \notin pending)

\* ------------------------------------------------------------------ C38
\* C38 (as stated): a frame that cannot be decoded does not stop the control
\* reader: a well-formed response that arrives after a malformed frame still
\* resolves the pending request with its id.
C38_ReaderSurvivesMalformedFrame ==
  \A i, j \in 1..Len(k_arrived) :
    (/\ i < j
     /\ from_json(k_arrived[i]).raised
     /\ ~from_json(k_arrived[j]).raised
     /\ from_json(k_arrived[j]).msg.type = <<"response">>)
      => from_json(k_arrived[j]).msg.id \notin k_pending

\* ------------------------------------------------------------------ C39
\* C39 (as stated): when two concurrent connect(serial) calls for the same
\* serial have both returned a client, it is the same client, one client is
\* connected and one port block is in use for the serial, and no connected
\* client and no forward of a connected client is left outside the pool.
C39_ConcurrentConnectsShareClient ==
  \A c, d \in Callers :
    (/\ c # d
     /\ call[c].op = "connect" /\ call[c].pc = "done" /\ call[c].res.kind = "client"
     /\ call[d].op = "connect" /\ call[d].pc = "done" /\ call[d].res.kind = "client"
     /\ call[c].serial = call[d].serial)
      => /\ call[c].res.client = call[d].res.client
         /\ \A k \in Blocks : is_connected(k) => \E s \in Serials : clients[s] = k
         /\ \A x \in forwards :
              is_connected(ClientAt(x[2])) => x[2] \in BlockPorts(port_map[x[1]])

\* ------------------------------------------------------------------ C40
\* C40 (as stated): is_success of a returned ExecutionResult is true only if
\* no execution-level error is set and every result has status passed: a
\* result with status failed or error makes it false.
C40_SuccessMeansAllPassed ==
  (e_return.kind = "result" /\ ExecutionResult_is_success(e_return)) =>
    /\ e_return.error = NoError
    /\ \A j \in 1..Len(e_return.results) : e_return.results[j].status = "passed"

====
